---- MODULE Spec2Model ----
(***************************************************************************)
(* A model of the secure FTP client (src/ftp_client.py) and of its scan    *)
(* agent (src/clamav_agent.py): the session operations of ClientSocket     *)
(* (connect, login, close, CWD and MKD), its data-channel operations       *)
(* (list_files, put_file, down_file) with the parsing of the PASV reply    *)
(* and the bytes they move, the scan made before every upload, the         *)
(* recursive put_folder and down_folder, the GUI's single transfer worker, *)
(* and the agent process that serves one scan.                             *)
(*                                                                         *)
(* A call of a ClientSocket method is a frame fr[t] of the thread t that   *)
(* runs it; every action is one step of that method, translated from the   *)
(* statements between two blocking socket calls.  What the server, the     *)
(* scan agent and the network answer is drawn from small sets at the step  *)
(* that reads it.                                                          *)
(***************************************************************************)
EXTENDS Integers, Sequences, FiniteSets, TLC

\* ------------------------------------------------------------------ bounds
\* calls one thread makes in SpecTransfer
MaxCalls == 2
\* 4096-byte chunks of a transferred file or listing
MaxChunks == 2
\* agent processes started in SpecAgent
MaxRuns == 2
\* jobs the user enqueues in SpecGui
MaxJobs == 3
\* calls the caller makes in SpecSession
MaxSessionCalls == 3

\* ------------------------------------------------------- program constants
\* one attempt more than the program allows
max_retries_more == 3 + 1
\* scan_file_with_ClamAVAgent: max_retries = 3
max_retries == 3

\* --------------------------------------------------------------- the state
VARIABLES
    is_passive,      \* ClientSocket.is_passive
    fr,              \* per thread: the frame of the ClientSocket call it runs
    leaked,          \* open sockets that no frame refers to any more
    inst_proc,       \* self._clamav_agent_process (instance attribute)
    cls_proc,        \* ClientSocket._clamav_agent_process (class attribute)
    calls,           \* calls made so far (SpecTransfer)
    transfer_queue,  \* GUI.transfer_queue
    wpc,             \* position of GUI._transfer_worker
    job,             \* the job the worker holds
    running,         \* jobs whose client call is in progress
    started,         \* jobs in the order the worker started them
    njobs,           \* jobs put on the queue so far
    stop_after,      \* jobs put before the stop sentinel, -1 while none was put
    client,          \* GUI.client: "set" (a ClientSocket) or "none"
    done,            \* the task_done calls of the worker, in order
    ui_after,        \* refresh_remote_files callbacks scheduled with after(0, ..)
    control_socket,  \* ClientSocket.control_socket
    context,         \* ClientSocket.context
    transfer_mode,   \* ClientSocket.transfer_mode
    remote_file,     \* the bytes of the file on the server
    local_copy,      \* the bytes down_file wrote to its target file
    srv,             \* the agent process (src/clamav_agent.py, __main__)
    rcwd,            \* the working directory of the session on the server
    fstack,          \* the put_folder and down_folder calls in progress, innermost last
    fret             \* the put_folder or down_folder call that returned last

vars == <<is_passive, fr, leaked, inst_proc, cls_proc, calls, transfer_queue,
          wpc, job, running, started, njobs, stop_after, client, done, ui_after,
          control_socket, context, transfer_mode, remote_file, local_copy,
          srv, rcwd, fstack, fret>>

sessVars == <<control_socket, context, transfer_mode>>

guiVars == <<transfer_queue, wpc, job, running, started, njobs, stop_after,
             client, done, ui_after>>
agentVars == <<inst_proc, cls_proc>>
fileVars == <<remote_file, local_copy>>
restVars == <<fileVars, srv, rcwd>>
folderVars == <<fstack, fret>>

Threads == {"worker", "ui"}

\* What recv reads from port 15116: the three verdicts of the agent, nothing
\* when it closes the connection without sending (recv returns b""), and a
\* verdict followed by a line feed, which another server on the port may send.
AgentReplies == {"CLEAN", "INFECTED", "ERROR", "", "CLEAN\n"}

\* Exceptions an attempt can end with.
FailKinds == {"sockerr", "timeout", "other"}

\* No endpoint: the data socket of the call was not asked to connect.
NoPeer == [host |-> <<>>, port |-> -1]

IdleFrame ==
    [op |-> "none", pc |-> "idle", attempt |-> 0, fails |-> <<>>, restarts |-> 0,
     spawns |-> 0, dropped |-> FALSE, result |-> "none", scan_ret |-> "none",
     m1 |-> "unset", m2 |-> "unset", data |-> "none", listen |-> "none",
     ret_listen |-> FALSE, chunks |-> 0, ev |-> <<>>, out |-> "none",
     response |-> <<>>, peer |-> NoPeer, session |-> "none",
     missing |-> FALSE, filesize |-> 0, timeouts |-> <<>>, offset |-> 0,
     arg |-> <<>>]

\* The triggering command of an operation.
Trigger(op) == CASE op = "list" -> "LIST" [] op = "put" -> "STOR" [] OTHER -> "RETR"

Has(s, e) == \E i \in 1..Len(s) : s[i] = e

\* ------------------------------------------------------------ scan agent
Alive(p) == p \in {"starting", "listening", "served"}

\* self._clamav_agent_process: the instance attribute once it is set, else the
\* class attribute.
SelfProc == IF inst_proc # "unset" THEN inst_proc ELSE cls_proc

Listening == inst_proc = "listening" \/ cls_proc = "listening"

\* The agent that accepted a connection serves no other one.
Served(p) == IF p = "listening" THEN "served" ELSE p

\* The agent process itself (src/clamav_agent.py): it binds port 15116 when no
\* other agent holds it and dies otherwise; it exits after one connection, or
\* at any time.
AgentStep ==
    /\ \/ /\ inst_proc = "starting"
          /\ inst_proc' = IF cls_proc = "listening" THEN "dead" ELSE "listening"
          /\ UNCHANGED cls_proc
       \/ /\ cls_proc = "starting"
          /\ cls_proc' = IF inst_proc = "listening" THEN "dead" ELSE "listening"
          /\ UNCHANGED inst_proc
       \/ /\ inst_proc \in {"listening", "served"}
          /\ inst_proc' = "dead"
          /\ UNCHANGED cls_proc
       \/ /\ cls_proc \in {"listening", "served"}
          /\ cls_proc' = "dead"
          /\ UNCHANGED inst_proc
    /\ UNCHANGED <<restVars, sessVars, is_passive, fr, leaked, calls, guiVars, folderVars>>

\* ------------------------------------------------------------ frame helpers
Set(t, f) == fr' = [fr EXCEPT ![t] = f]

Ev(f, e) == [f EXCEPT !.ev = Append(@, e)]

\* An exception reaches the boundary of the operation.  put_file and down_file
\* catch it, close the listening socket their own local names (it is None when
\* get_data_socket did not return) and return; connect and login catch it and
\* return False; list_files, change_directory_server, make_directory and
\* close have no handler.  The data socket is closed on no such path.
Raised(f) ==
    IF f.op \in {"put", "down"}
    THEN [f EXCEPT !.pc = "done", !.out = "returned",
                   !.ev = Append(@, "except"),
                   !.listen = IF f.ret_listen /\ @ = "open" THEN "closed" ELSE @]
    ELSE IF f.op \in {"connect", "login"}
    THEN [f EXCEPT !.pc = "done", !.out = "False", !.ev = Append(@, "except")]
    ELSE [f EXCEPT !.pc = "done", !.out = "raised"]

Returned(f) == [f EXCEPT !.pc = "done", !.out = "returned"]

OpenData(f) == f.data \in {"raw", "tls"}
OpenListen(f) == f.listen = "open"

\* Port 10806 is held by a listening socket that was not closed.
PortBound == leaked.listen > 0 \/ \E t \in Threads : OpenListen(fr[t])

\* ------------------------------------------- scan_file_with_ClamAVAgent
\* a comparison that ignores white space after the verdict
CleanMut(result) == result \in {"CLEAN", "CLEAN\n"}
\* result == "CLEAN"
Clean(result) == result = "CLEAN"

\* 1 MB, as the timeout formula counts it
MB == 1024 * 1024

\* a timeout that counts a MB as a million bytes
TimeoutMut(size) == 45 * 1000000 + 4 * size
\* settimeout(45 + filesize_mb * 4) with filesize_mb = getsize / (1024 * 1024):
\* the timeout in units of 1/MB second, so that it is a whole number (the
\* floating-point operations of the code are exact for sizes up to 2^32).
Timeout(size) == 45 * MB + 4 * size

\* a put_file that does not look whether the file is there
PathMissingMut(exists) == FALSE
\* not os.path.exists(local_filename)
PathMissing(exists) == ~exists

\* an upload that goes on whatever the scan returned
ProceedAfterScanMut(ret) == TRUE
\* put_file: if not self.scan_file_with_ClamAVAgent(..): return
ProceedAfterScan(ret) == ret

\* The except clause that handles a failure: clauses are tried in order, and
\* socket.timeout is a subclass of socket.error (OSError), so the first
\* clause takes both; the second clause is never chosen.
ExceptClause(kind) ==
    CASE kind \in {"sockerr", "timeout"} -> 1 [] OTHER -> 3

\* a handler that retries after the last attempt too
RetryLeftMut(attempt) == attempt < max_retries
\* attempt < max_retries - 1
RetryLeft(attempt) == attempt < max_retries - 1

\* scan_file_with_ClamAVAgent returns ret to put_file.
ScanReturn(f, ret) ==
    LET g == [f EXCEPT !.scan_ret = IF ret THEN "true" ELSE "false"]
    IN  IF ProceedAfterScan(ret) THEN [g EXCEPT !.pc = "gds"] ELSE Returned(g)

\* for attempt in range(max_retries): the next iteration, or the return False
\* after the loop.
NextAttempt(f) ==
    IF f.attempt + 1 < max_retries
    THEN [f EXCEPT !.attempt = @ + 1, !.pc = "attempt"]
    ELSE ScanReturn(f, FALSE)

\* put_file up to the scan: the existence check, then the agent is spawned
\* when the handle is unset or its process has exited.  size is the size of
\* the local file.
put_file_begin(t, exists, size) ==
    /\ fr[t].pc = "idle"
    /\ ~exists => size = 0
    /\ IF PathMissing(exists)
       THEN /\ Set(t, Returned([IdleFrame EXCEPT !.op = "put", !.missing = ~exists]))
            /\ UNCHANGED agentVars
       ELSE LET spawn == SelfProc \in {"unset", "none"} \/ ~Alive(SelfProc)
            IN  /\ Set(t, [IdleFrame EXCEPT !.op = "put", !.pc = "attempt",
                                            !.missing = ~exists, !.filesize = size,
                                            !.spawns = IF spawn THEN 1 ELSE 0])
                /\ inst_proc' = IF spawn THEN "starting" ELSE inst_proc
                /\ UNCHANGED cls_proc
    /\ UNCHANGED <<restVars, sessVars, is_passive, leaked>>

\* One attempt that reads a reply from the agent; every attempt makes a new
\* socket and sets its timeout from the size of the file.
attempt_reply(t, r) ==
    /\ fr[t].pc = "attempt"
    /\ Listening
    /\ Set(t, ScanReturn([fr[t] EXCEPT !.result = r,
                                       !.timeouts = Append(@, Timeout(fr[t].filesize))],
                         Clean(r)))
    /\ inst_proc' = Served(inst_proc)
    /\ cls_proc' = IF inst_proc = "listening" THEN cls_proc ELSE Served(cls_proc)
    /\ UNCHANGED <<restVars, sessVars, is_passive, leaked, calls, guiVars, folderVars>>

\* One attempt that fails with an exception; accepted tells whether the
\* agent had accepted the connection.
attempt_fail(t, kind, accepted) ==
    /\ fr[t].pc = "attempt"
    /\ accepted => Listening
    /\ kind = "timeout" => accepted
    /\ LET f == [fr[t] EXCEPT !.fails = Append(@, kind),
                              !.timeouts = Append(@, Timeout(fr[t].filesize))]
       IN  Set(t, IF RetryLeft(f.attempt)
                  THEN IF ExceptClause(kind) = 1
                       THEN [f EXCEPT !.pc = "restart"]
                       ELSE NextAttempt(f)
                  ELSE ScanReturn(f, FALSE))
    /\ inst_proc' = IF accepted THEN Served(inst_proc) ELSE inst_proc
    /\ cls_proc' = IF accepted /\ inst_proc # "listening"
                   THEN Served(cls_proc) ELSE cls_proc
    /\ UNCHANGED <<restVars, sessVars, is_passive, leaked, calls, guiVars, folderVars>>

\* a handler that logs nothing
FailLinesMut(kind, attempt) == <<>>
\* The lines the except clauses log for the failure of an attempt (counted
\* from 0): the error (the first and the third clause log the same words),
\* then the restart when the first clause retries, or that all attempts
\* failed; the number of the attempt and the text of the exception are left
\* out.
FailLines(kind, attempt) ==
    <<"Unexpected error with agent">>
        \o IF RetryLeft(attempt)
           THEN IF ExceptClause(kind) = 1
                THEN <<"Restarting ClamAV agent due to error...">>
                ELSE <<>>
           ELSE <<"All retry attempts failed">>

\* The lines of the failed attempts i.. of the call.
RECURSIVE AttemptLines(_, _)
AttemptLines(f, i) ==
    IF i > Len(f.fails) THEN <<>>
    ELSE FailLines(f.fails[i], i - 1) \o AttemptLines(f, i + 1)

\* What put_file has logged up to the end of the scan: the lines of
\* scan_file_with_ClamAVAgent (a verdict is not logged), then its own line
\* when the scan returned False.
ScanLog(f) ==
    IF f.missing THEN <<"File does not exist">>
    ELSE <<"Scanning with ClamAVAgent">>
             \o (IF f.spawns > f.restarts THEN <<"Starting ClamAV agent...">> ELSE <<>>)
             \o AttemptLines(f, 1)
             \o (IF f.scan_ret = "false" THEN <<"This file is not safe">> ELSE <<>>)

\* restart_clamav_agent: cleanup_clamav_agent terminates the process of the
\* class attribute when it runs and clears the attribute; then a new process
\* is spawned and kept in the class attribute.
restart_clamav_agent(t) ==
    /\ fr[t].pc = "restart"
    /\ cls_proc' = "starting"
    /\ Set(t, NextAttempt([fr[t] EXCEPT !.restarts = @ + 1, !.spawns = @ + 1]))
    /\ UNCHANGED <<restVars, sessVars, is_passive, leaked, inst_proc, calls, guiVars, folderVars>>

\* ------------------------------------------------------- get_data_socket
Mode == IF is_passive THEN "passive" ELSE "active"

\* a test that takes every reply for 150
Is150Mut(r) == TRUE
\* response.startswith("150")
Is150(r) == r = "150"

\* list_files and down_file start here.  down_file makes the target
\* directory before its try block (ok is FALSE when os.makedirs raises, and
\* the exception goes to the caller), then asks for the size.
list_files_begin(t) ==
    /\ fr[t].pc = "idle"
    /\ Set(t, [IdleFrame EXCEPT !.op = "list", !.pc = "gds"])
    /\ UNCHANGED <<restVars, sessVars, is_passive, leaked, agentVars>>

down_file_begin(t, ok) ==
    /\ fr[t].pc = "idle"
    /\ Set(t, IF ok
              THEN Ev([IdleFrame EXCEPT !.op = "down", !.pc = "size_reply"], "SIZE")
              ELSE [IdleFrame EXCEPT !.op = "down", !.pc = "done", !.out = "raised"])
    /\ UNCHANGED <<restVars, sessVars, is_passive, leaked, agentVars>>

\* get_file_size: any reply, and any exception, lets down_file go on.
get_file_size(t) ==
    /\ fr[t].pc = "size_reply"
    /\ Set(t, [fr[t] EXCEPT !.pc = "gds"])
    /\ UNCHANGED <<restVars, sessVars, is_passive, leaked, agentVars, calls, guiVars, folderVars>>

\* get_data_socket, first test of is_passive: passive_mode sends PASV;
\* active_mode binds port 10806 and sends PORT.
get_data_socket(t) ==
    /\ fr[t].pc = "gds"
    /\ LET f == [fr[t] EXCEPT !.m1 = Mode]
       IN  Set(t, IF is_passive
                  THEN Ev([f EXCEPT !.pc = "pasv_reply"], "PASV")
                  ELSE IF PortBound
                       THEN Raised(Ev(f, "bind_failed"))
                       ELSE Ev([f EXCEPT !.pc = "port_reply", !.listen = "open"],
                               "PORT"))
    /\ UNCHANGED <<restVars, sessVars, is_passive, leaked, agentVars, calls, guiVars, folderVars>>

\* ---------------------------------------------------------- passive_mode
\* A reply is the sequence of its characters; "CR" and "LF" stand for the
\* carriage return and the line feed.
Digits == {"0", "1", "2", "3", "4", "5", "6", "7", "8", "9"}
Whitespace == {" ", "CR", "LF"}

DigitVal(c) ==
    CASE c = "0" -> 0 [] c = "1" -> 1 [] c = "2" -> 2 [] c = "3" -> 3
      [] c = "4" -> 4 [] c = "5" -> 5 [] c = "6" -> 6 [] c = "7" -> 7
      [] c = "8" -> 8 [] OTHER -> 9

\* str.split(sep): the pieces between the occurrences of sep, empty pieces
\* kept.
RECURSIVE Split(_, _)
Split(str, sep) ==
    IF \A i \in 1..Len(str) : str[i] # sep
    THEN <<str>>
    ELSE LET i == CHOOSE k \in 1..Len(str) :
                      str[k] = sep /\ \A j \in 1..(k - 1) : str[j] # sep
         IN  <<SubSeq(str, 1, i - 1)>> \o Split(SubSeq(str, i + 1, Len(str)), sep)

\* str[:-3] and str[1:]
DropLast3(str) == SubSeq(str, 1, Len(str) - 3)
DropFirst(str) == SubSeq(str, 2, Len(str))

\* The characters int() reads: it ignores white space at both ends.
RECURSIVE Strip(_)
Strip(str) ==
    IF str = <<>> THEN str
    ELSE IF str[1] \in Whitespace THEN Strip(Tail(str))
    ELSE IF str[Len(str)] \in Whitespace THEN Strip(SubSeq(str, 1, Len(str) - 1))
    ELSE str

\* int(str) raises ValueError unless str is a decimal numeral (signs and
\* underscores are not in the alphabet of the replies of this model).
IsInt(str) ==
    LET d == Strip(str) IN d # <<>> /\ \A i \in 1..Len(d) : d[i] \in Digits

RECURSIVE DecVal(_)
DecVal(d) == IF d = <<>> THEN 0 ELSE 10 * DecVal(SubSeq(d, 1, Len(d) - 1)) + DigitVal(d[Len(d)])

int(str) == DecVal(Strip(str))

\* passive_mode, lines 213-220: the last blank-separated token without its
\* last three characters is split at the commas, and the first field loses
\* its first character.
LastTokenFields(response) ==
    LET res == Split(response, " ")
        data_channel == Split(DropLast3(res[Len(res)]), ",")
    IN  <<DropFirst(data_channel[1])>> \o Tail(data_channel)

\* passive_mode, lines 223-226: data_host is made of the fields 0..3 (an
\* IndexError when there are fewer), data_port of the last two fields (a
\* ValueError when int() rejects one).  Nothing tests the number of fields or
\* that the fields of the host are numbers.
ParsePasv(response) ==
    LET data_channel == LastTokenFields(response)
        n == Len(data_channel)
    IN  IF n < 4 \/ ~IsInt(data_channel[n - 1]) \/ ~IsInt(data_channel[n])
        THEN [raised |-> TRUE, peer |-> NoPeer]
        ELSE [raised |-> FALSE,
              peer |-> [host |-> SubSeq(data_channel, 1, 4),
                        port |-> int(data_channel[n - 1]) * 256 + int(data_channel[n])]]

\* "227 Entering Passive Mode "
Prefix227 ==
    <<"2", "2", "7", " ", "E", "n", "t", "e", "r", "i", "n", "g", " ",
      "P", "a", "s", "s", "i", "v", "e", " ", "M", "o", "d", "e", " ">>

RECURSIVE Join(_)
Join(fields) ==
    IF Len(fields) = 1 THEN fields[1]
    ELSE fields[1] \o <<",">> \o Join(Tail(fields))

\* The reply whose last token is "(" fields "," .. "," fields, then ending.
PasvReply(fields, ending) == Prefix227 \o <<"(">> \o Join(fields) \o ending

\* The field lists of the replies of this model: 10,0,0,7,4,21 and the same
\* with a field less, a field more, a port field or a host field that is no
\* number.
SixFields == <<<<"1", "0">>, <<"0">>, <<"0">>, <<"7">>, <<"4">>, <<"2", "1">>>>
FieldLists ==
    {SixFields,
     SubSeq(SixFields, 1, 5),
     SixFields \o <<<<"9">>>>,
     SubSeq(SixFields, 1, 5) \o <<<<"x">>>>,
     <<<<"x">>>> \o SubSeq(SixFields, 2, 6)}

\* What follows the fields, up to the end of the reply line: ")." as
\* documented, ")" without the period (the form of FileZilla Server), the
\* period without the parenthesis, and neither.
DocEndings == {<<")", ".", "CR", "LF">>}
Endings == DocEndings \cup {<<")", "CR", "LF">>, <<".", "CR", "LF">>, <<"CR", "LF">>}

\* The replies to PASV of SpecPasv; the empty reply is what a closed control
\* connection gives.
PasvReplies == {PasvReply(f, e) : f \in FieldLists, e \in Endings} \cup {<<>>}

\* The reply to PASV in the other specifications.
ServerPasv == PasvReply(SixFields, <<")", "CR", "LF">>)

\* passive_mode: the reply to PASV is read and parsed and the data socket
\* connects to the endpoint parsed; ok is FALSE when the connect raises.
passive_mode(t, response, ok) ==
    /\ fr[t].pc = "pasv_reply"
    /\ LET f == [fr[t] EXCEPT !.response = response]
           p == ParsePasv(response)
       IN  Set(t, IF p.raised
                  THEN Raised(f)
                  ELSE IF ok
                       THEN Ev([f EXCEPT !.pc = "cmd", !.data = "raw",
                                         !.peer = p.peer], "connect")
                       ELSE Raised([f EXCEPT !.peer = p.peer]))
    /\ UNCHANGED <<restVars, sessVars, is_passive, leaked, agentVars, calls, guiVars, folderVars>>

\* an active_mode that goes on whatever the server answers to PORT
PortOkMut(r) == TRUE
\* response.startswith("200")
PortOk(r) == r = "200"

\* active_mode: the reply to PORT; anything but 200 raises, and so does a
\* failed read.  The listening socket stays open and get_data_socket's caller
\* never gets it.
active_mode(t, r) ==
    /\ fr[t].pc = "port_reply"
    /\ Set(t, IF r = "raise"
              THEN Raised(fr[t])
              ELSE IF PortOk(r)
                   THEN Ev([fr[t] EXCEPT !.pc = "cmd"], r)
                   ELSE Raised(Ev(Ev(fr[t], r), "port_refused")))
    /\ UNCHANGED <<restVars, sessVars, is_passive, leaked, agentVars, calls, guiVars, folderVars>>

\* get_data_socket sends the triggering command and tests is_passive again:
\* in passive mode it returns, in active mode it accepts on listen_socket,
\* which is None when the first test found passive mode.
send_trigger(t) ==
    /\ fr[t].pc = "cmd"
    /\ LET f == Ev([fr[t] EXCEPT !.m2 = Mode], Trigger(fr[t].op))
       IN  Set(t, IF is_passive
                  THEN [f EXCEPT !.pc = "wrap", !.ret_listen = f.listen # "none"]
                  ELSE IF f.listen = "none"
                       THEN Raised(Ev(f, "accept_on_none"))
                       ELSE [f EXCEPT !.pc = "accept"])
    /\ UNCHANGED <<restVars, sessVars, is_passive, leaked, agentVars, calls, guiVars, folderVars>>

\* listen_socket.accept(): the server connects, or the accept times out.
accept(t, ok) ==
    /\ fr[t].pc = "accept"
    /\ Set(t, IF ok
              THEN Ev([fr[t] EXCEPT !.pc = "wrap", !.data = "raw",
                                    !.ret_listen = TRUE], "accept")
              ELSE Raised(fr[t]))
    /\ UNCHANGED <<restVars, sessVars, is_passive, leaked, agentVars, calls, guiVars, folderVars>>

\* --------------------------------------- list_files, put_file, down_file
\* a caller that goes on with the socket get_data_socket returned
WrappedMut(f) == [f EXCEPT !.pc = "reply150"]
\* data_socket = self.context.wrap_socket(data_socket,
\* session=self.control_socket.session): the name data_socket now refers to
\* the TLS socket, made with the session of the control socket.
Wrapped(f) ==
    Ev([f EXCEPT !.pc = "reply150", !.data = "tls", !.session = "control"], "wrap")

\* context.wrap_socket(data_socket, session=control_socket.session); it
\* raises on a failed handshake, when get_data_socket returned no socket, when
\* the context is None and when the control socket is no TLS socket (it has
\* no session then).
wrap_socket(t, ok) ==
    /\ fr[t].pc = "wrap"
    /\ Set(t, IF ok /\ fr[t].data = "raw" /\ context = "set" /\ control_socket = "tls"
              THEN Wrapped(fr[t])
              ELSE Raised(fr[t]))
    /\ UNCHANGED <<restVars, sessVars, is_passive, leaked, agentVars, calls, guiVars, folderVars>>

\* ------------------------------------------------------------ file contents
\* The content of a file is the sequence of its bytes; a byte is named by the
\* file it was first read from and its offset there, and a run of
\* consecutive bytes [lo, hi) of one file is written as one extent.
Extent(src, lo, hi) == [src |-> src, lo |-> lo, hi |-> hi]

\* the whole file src of size bytes
Whole(src, size) == IF size = 0 THEN <<>> ELSE <<Extent(src, 0, size)>>

Min(a, b) == IF a < b THEN a ELSE b

RECURSIVE Size(_)
Size(c) == IF c = <<>> THEN 0 ELSE (Head(c).hi - Head(c).lo) + Size(Tail(c))

\* c followed by the bytes of e
AppendExt(c, e) ==
    IF e.hi <= e.lo THEN c
    ELSE IF c # <<>> /\ c[Len(c)].src = e.src /\ c[Len(c)].hi = e.lo
         THEN [c EXCEPT ![Len(c)].hi = e.hi]
         ELSE Append(c, e)

RECURSIVE Cat(_, _)
Cat(c, d) == IF d = <<>> THEN c ELSE Cat(AppendExt(c, Head(d)), Tail(d))

\* bytes a .. b-1 of c
RECURSIVE Slice(_, _, _)
Slice(c, a, b) ==
    IF c = <<>> \/ b <= a THEN <<>>
    ELSE LET e == Head(c)
             n == e.hi - e.lo
         IN  IF a >= n THEN Slice(Tail(c), a - n, b - n)
             ELSE Cat(<<Extent(e.src, e.lo + a, e.lo + Min(b, n))>>,
                      Slice(Tail(c), 0, b - n))

\* file.read(4096), data_socket.recv(4096)
ChunkSize == 4096

\* The file the server holds before the first upload.
ServerFile == Whole("server", ChunkSize + 1)

\* Sizes of the local file: empty, whole chunks, and one byte more.
FileSizes == {0} \cup {ChunkSize * k : k \in 1..(MaxChunks - 1)}
                 \cup {ChunkSize * (MaxChunks - 1) + 1}

\* recv returns what has arrived: the whole chunk, or one network segment.
Segment == 1460

InitFiles == remote_file = ServerFile /\ local_copy = <<>>

\* a read loop that stops at the first chunk shorter than 4096 bytes
FileReadMut(f) ==
    IF f.filesize - f.offset >= ChunkSize THEN ChunkSize ELSE 0
\* file.read(4096): the next 4096 bytes of the local file, fewer at its end,
\* none after it.
FileRead(f) == Min(ChunkSize, f.filesize - f.offset)

\* The lengths of what the next read of the transfer loop can return: a chunk
\* of the local file (put_file), a part of what the server still has to send
\* (down_file), or one chunk of the listing.
Reads(f) ==
    CASE f.op = "put" -> {FileRead(f)}
      [] f.op = "down" ->
            LET rest == Size(remote_file) - f.offset
            IN  {Min(ChunkSize, rest), Min(Segment, rest)}
      [] OTHER -> {Min(1, f.chunks)}

\* the longest of them: nothing arrives in parts
FullRead(f) == CHOOSE k \in Reads(f) : \A j \in Reads(f) : j <= k

\* The reply to the triggering command.  Without 150 the data socket is
\* closed; put_file and down_file close the listening socket too, list_files
\* does not.  With 150 the transfer follows: the server creates the file of a
\* STOR, down_file opens its target file for writing, and a listing has n
\* chunks.
reply150(t, r, n) ==
    /\ fr[t].pc = "reply150"
    /\ fr[t].op # "list" => n = 0
    /\ remote_file' = IF Is150(r) /\ fr[t].op = "put" THEN <<>> ELSE remote_file
    /\ local_copy' = IF Is150(r) /\ fr[t].op = "down" THEN <<>> ELSE local_copy
    /\ Set(t, IF r = "raise"
              THEN Raised(fr[t])
              ELSE IF Is150(r)
                   THEN Ev([fr[t] EXCEPT !.pc = "stream", !.chunks = n], r)
                   ELSE Returned(Ev([fr[t] EXCEPT
                            !.data = "closed",
                            !.listen = IF fr[t].op # "list" /\ @ = "open"
                                       THEN "closed" ELSE @], r)))
    /\ UNCHANGED <<srv, rcwd, sessVars, is_passive, leaked, agentVars, calls, guiVars, folderVars>>

\* a transfer that reads the final reply with the data socket still open
StreamEndMut(f) == [f EXCEPT !.pc = "final"]
\* After the last chunk: data_socket.close(), listen_socket.close() when there
\* is one, and the final reply is read next.
StreamEnd(f) ==
    Ev([f EXCEPT !.pc = "final", !.data = "closed",
                 !.listen = IF @ = "open" THEN "closed" ELSE @], "close")

\* One turn of the transfer loop: the read returns k bytes, and they are
\* sent (put_file) or written to the target file (down_file), or the
\* transfer fails with an exception; a read that returns nothing ends the
\* loop and both sockets are closed.
stream(t, ok, k) ==
    /\ fr[t].pc = "stream"
    /\ k \in Reads(fr[t])
    /\ LET f == fr[t]
           moved == ok /\ k > 0
       IN  /\ Set(t, IF k = 0
                     THEN StreamEnd(f)
                     ELSE IF ok
                          THEN Ev([f EXCEPT !.offset = @ + k,
                                            !.chunks = IF f.op = "list" THEN @ - 1 ELSE @],
                                  "data")
                          ELSE Raised(f))
           /\ remote_file' = IF moved /\ f.op = "put"
                             THEN AppendExt(remote_file, Extent("local", f.offset, f.offset + k))
                             ELSE remote_file
           /\ local_copy' = IF moved /\ f.op = "down"
                            THEN Cat(local_copy, Slice(remote_file, f.offset, f.offset + k))
                            ELSE local_copy
    /\ UNCHANGED <<srv, rcwd, sessVars, is_passive, leaked, agentVars, calls, guiVars, folderVars>>

\* The final reply is read, or the read raises.
final_reply(t, ok) ==
    /\ fr[t].pc = "final"
    /\ Set(t, IF ok THEN Returned(Ev(fr[t], "final")) ELSE Raised(fr[t]))
    /\ UNCHANGED <<restVars, sessVars, is_passive, leaked, agentVars, calls, guiVars, folderVars>>

\* The call is over: its frame goes, and the sockets it left open stay open
\* with no name referring to them; the caller has what the call returned, or
\* its exception.
Leave(t) ==
    /\ fr[t].pc = "done"
    /\ Set(t, [IdleFrame EXCEPT !.out = fr[t].out])
    /\ leaked' = [data |-> leaked.data + IF OpenData(fr[t]) THEN 1 ELSE 0,
                  listen |-> leaked.listen + IF OpenListen(fr[t]) THEN 1 ELSE 0]

\* The call was made by the caller of the client (no folder call is in
\* progress).
Return(t) ==
    /\ fstack = <<>>
    /\ Leave(t)
    /\ UNCHANGED <<restVars, sessVars, is_passive, agentVars, calls, guiVars, folderVars>>

\* The runtime may close a socket nothing refers to (it need not).
Finalize ==
    /\ \/ /\ leaked.data > 0
          /\ leaked' = [leaked EXCEPT !.data = @ - 1]
       \/ /\ leaked.listen > 0
          /\ leaked' = [leaked EXCEPT !.listen = @ - 1]
    /\ UNCHANGED <<restVars, sessVars, is_passive, fr, agentVars, calls, guiVars, folderVars>>

\* Every step of a call in progress on thread t.
Step(t) ==
    \/ \E r \in AgentReplies : attempt_reply(t, r)
    \/ \E k \in FailKinds, a \in BOOLEAN : attempt_fail(t, k, a)
    \/ restart_clamav_agent(t)
    \/ get_file_size(t)
    \/ get_data_socket(t)
    \/ \E ok \in BOOLEAN : passive_mode(t, ServerPasv, ok)
    \/ passive_mode(t, <<>>, TRUE)
    \/ \E r \in {"200", "500", "raise"} : active_mode(t, r)
    \/ send_trigger(t)
    \/ \E ok \in BOOLEAN : accept(t, ok)
    \/ \E ok \in BOOLEAN : wrap_socket(t, ok)
    \/ \E r \in {"150", "550", "raise"}, n \in 0..MaxChunks : reply150(t, r, n)
    \/ \E ok \in BOOLEAN : stream(t, ok, FullRead(fr[t]))
    \/ \E ok \in BOOLEAN : final_reply(t, ok)
    \/ Return(t)

\* ------------------------------------------- the agent (src/clamav_agent.py)
\* How the run of clamscan ends: with an exit status (negative when a signal
\* killed it), with FileNotFoundError (no clamscan in PATH, or no file to
\* take the size of), or with another exception.
ScanOutcomes ==
    {[kind |-> "exit", code |-> c] : c \in {0, 1, 2, 40, -9}}
        \cup {[kind |-> k, code |-> 0] : k \in {"FileNotFoundError", "Exception"}}

\* a scanner status above 1 read as a detection
scan_fileMut(o) ==
    IF o.kind = "exit"
    THEN IF o.code = 0 THEN "CLEAN" ELSE IF o.code >= 1 THEN "INFECTED" ELSE "ERROR"
    ELSE "ERROR"
\* scan_file: the verdict for the exit status of clamscan; both except clauses
\* return ERROR.
scan_file(o) ==
    IF o.kind = "exit"
    THEN IF o.code = 0 THEN "CLEAN" ELSE IF o.code = 1 THEN "INFECTED" ELSE "ERROR"
    ELSE "ERROR"

\* The agent process before accept: the listening socket is bound.
AgentStart(run) ==
    [pc |-> "accept", run |-> run, client_socket |-> "none",
     server_socket |-> "open", temp_filepath |-> "none", filesize |-> 0,
     bytes_received |-> 0, scratch |-> "absent",
     outcome |-> [kind |-> "none", code |-> 0],
     scan_result |-> "none", sent |-> <<>>, peer |-> "none", raised |-> FALSE,
     received |-> <<>>]

InitAgent == srv = AgentStart(1)

\* The first recv of a connection, as a sequence of characters in which SEP
\* stands for the text <SEPARATOR>: a file name, the separator and a size,
\* also with the first bytes of the file after the size (the client sends
\* them right after the header); no separator; two separators; nothing.
HeaderNames == {<<"f">>, <<"d", "/", "f">>, <<"d", "/">>, <<".", ".">>}
HeaderSizes == {<<"0">>, <<"5">>, <<"4", "0", "9", "7">>, <<"x">>, <<"5", "b">>}
Headers ==
    {n \o <<"SEP">> \o z : n \in HeaderNames, z \in HeaderSizes}
        \cup {<<"f", "5">>, <<"f", "SEP", "5", "SEP", "5">>, <<>>}

\* str(n) of a natural number
DigitChar(n) == CHOOSE c \in Digits : DigitVal(c) = n
RECURSIVE str(_)
str(n) == IF n < 10 THEN <<DigitChar(n)>> ELSE str(n \div 10) \o <<DigitChar(n % 10)>>

\* What scan_file_with_ClamAVAgent sends on a connection: the path of the
\* file, the separator and the size in one send, then the bytes of the file.
\* The files are empty, or hold the character 7, or two letters.
ClientStream(filename, content) ==
    [header |-> filename \o <<"SEP">> \o str(Len(content)), content |-> content]
ClientStreams ==
    {ClientStream(n, c) : n \in {<<"f">>, <<"d", "/", "f">>},
                          c \in {<<>>, <<"7">>, <<"b", "b">>}}

\* The first recv(4096) of the agent returns the bytes that have arrived: the
\* header, which is one small send, and any number of the bytes of the file
\* that the client sent right after it.
FirstRecv(cs, n) == cs.header \o SubSeq(cs.content, 1, IF n < Len(cs.content) THEN n ELSE Len(cs.content))
FirstRecvs == {FirstRecv(cs, n) : cs \in ClientStreams, n \in 0..2}

\* os.path.basename
basename(path) == LET parts == Split(path, "/") IN parts[Len(parts)]

\* os.path.abspath(os.path.join(temp_dir, filename)) is a directory for these
\* names: the scratch directory itself or its parent.
IsDirName(name) == name \in {<<>>, <<".">>, <<".", ".">>}

\* except Exception as e: print(..); the finally clause follows.
AgentRaised(a) == [a EXCEPT !.pc = "finally", !.raised = TRUE]

\* os.path.exists is true of a directory and os.remove of a directory raises.
RemoveRaises(a) == a.temp_filepath = "dir"

agentRest == <<fileVars, rcwd, sessVars, is_passive, fr, leaked, agentVars, calls, guiVars, folderVars>>

\* server_socket.accept()
agent_accept(ok) ==
    /\ srv.pc = "accept"
    /\ srv' = IF ok
              THEN [srv EXCEPT !.pc = "header", !.client_socket = "open", !.peer = "open"]
              ELSE AgentRaised(srv)
    /\ UNCHANGED agentRest

\* The header: recv, the test for the separator, the split into two parts
\* (a ValueError when there are more), basename, int(filesize), and the
\* scratch path.
agent_header(received, ok) ==
    /\ srv.pc = "header"
    /\ LET parts == Split(received, "SEP")
           a == [srv EXCEPT !.peer = IF ok /\ received # <<>> THEN "open" ELSE "closed",
                            !.received = IF ok THEN received ELSE <<>>]
       IN  srv' = IF ~ok \/ Len(parts) # 2 \/ ~IsInt(parts[2])
                  THEN AgentRaised(a)
                  ELSE [a EXCEPT !.pc = "open",
                                 !.filesize = int(parts[2]),
                                 !.temp_filepath =
                                     IF IsDirName(basename(parts[1])) THEN "dir" ELSE "file"]
    /\ UNCHANGED agentRest

\* open(temp_filepath, "wb")
agent_open(ok) ==
    /\ srv.pc = "open"
    /\ srv' = IF ok /\ srv.temp_filepath = "file"
              THEN [srv EXCEPT !.pc = "recv", !.scratch = "present"]
              ELSE AgentRaised(srv)
    /\ UNCHANGED agentRest

\* One turn of the loop that stores the file: it ends when filesize bytes
\* were received or recv returns nothing; recv or write may raise.
agent_recv(k, ok) ==
    /\ srv.pc = "recv"
    /\ IF srv.bytes_received >= srv.filesize
       THEN k = 0 /\ ok /\ srv' = [srv EXCEPT !.pc = "scan"]
       ELSE /\ k \in {0, Min(ChunkSize, srv.filesize - srv.bytes_received)}
            /\ srv' = IF ~ok THEN AgentRaised([srv EXCEPT !.peer = "closed"])
                      ELSE IF k = 0 THEN [srv EXCEPT !.pc = "scan", !.peer = "closed"]
                      ELSE [srv EXCEPT !.bytes_received = @ + k]
    /\ UNCHANGED agentRest

\* scan_result = scan_file(temp_filepath)
agent_scan(o) ==
    /\ srv.pc = "scan"
    /\ srv' = [srv EXCEPT !.pc = "send", !.outcome = o, !.scan_result = scan_file(o)]
    /\ UNCHANGED agentRest

\* client_socket.send(scan_result.encode())
agent_send(ok) ==
    /\ srv.pc = "send"
    /\ srv' = IF ok
              THEN [srv EXCEPT !.pc = "finally", !.sent = Append(@, srv.scan_result)]
              ELSE AgentRaised([srv EXCEPT !.peer = "closed"])
    /\ UNCHANGED agentRest

\* The finally clause: the scratch file is removed when the path exists, then
\* both sockets are closed; an exception of os.remove leaves the clause, and
\* the process, before the sockets are closed.
agent_finally ==
    /\ srv.pc = "finally"
    /\ srv' = IF RemoveRaises(srv)
              THEN [srv EXCEPT !.pc = "crashed"]
              ELSE [srv EXCEPT !.pc = "exited",
                               !.scratch = "absent",
                               !.client_socket = IF @ = "open" THEN "closed" ELSE @,
                               !.server_socket = "closed"]
    /\ UNCHANGED agentRest

\* The client starts the agent again (ftp_client.py, Popen of the agent).
agent_spawn ==
    /\ srv.pc \in {"exited", "crashed"}
    /\ srv.run < MaxRuns
    /\ srv' = AgentStart(srv.run + 1)
    /\ UNCHANGED agentRest

\* ------------------------------- connect, login, close, simple commands
\* send and recv work on a connected control socket only.
Connected == control_socket \in {"plain", "tls"}

\* connect: a new socket replaces control_socket, connects and reads the
\* greeting; every exception gives False.
connect(t, ok) ==
    /\ fr[t].pc = "idle"
    /\ control_socket' = IF ok THEN "plain" ELSE "unconnected"
    /\ Set(t, IF ok
              THEN [IdleFrame EXCEPT !.op = "connect", !.pc = "done", !.out = "True"]
              ELSE Raised([IdleFrame EXCEPT !.op = "connect"]))
    /\ UNCHANGED <<restVars, context, transfer_mode, is_passive, leaked, agentVars>>

\* login sends AUTH TLS.
login_begin(t) ==
    /\ fr[t].pc = "idle"
    /\ Set(t, IF Connected
              THEN Ev([IdleFrame EXCEPT !.op = "login", !.pc = "auth_reply"], "AUTH TLS")
              ELSE Raised([IdleFrame EXCEPT !.op = "login"]))
    /\ UNCHANGED <<restVars, sessVars, is_passive, leaked, agentVars>>

\* The reply to AUTH TLS: on 234 the context is made and the control socket
\* is wrapped next; on any other reply login goes on to USER on the socket as
\* it is.
auth_reply(t, r) ==
    /\ fr[t].pc = "auth_reply"
    /\ Set(t, IF r = "raise" THEN Raised(fr[t])
              ELSE IF r = "234" THEN Ev([fr[t] EXCEPT !.pc = "handshake"], "auth:234")
              ELSE Ev(Ev([fr[t] EXCEPT !.pc = "user_reply"], "auth:" \o r), "USER"))
    /\ context' = IF r = "234" THEN "set" ELSE context
    /\ UNCHANGED <<restVars, control_socket, transfer_mode, is_passive, leaked, agentVars,
                   calls, guiVars, folderVars>>

\* context.wrap_socket(control_socket): the handshake; then USER is sent.
handshake(t, ok) ==
    /\ fr[t].pc = "handshake"
    /\ control_socket' = IF ok THEN "tls" ELSE control_socket
    /\ Set(t, IF ok
              THEN Ev(Ev([fr[t] EXCEPT !.pc = "user_reply"], "tls"), "USER")
              ELSE Raised(fr[t]))
    /\ UNCHANGED <<restVars, context, transfer_mode, is_passive, leaked, agentVars, calls,
                   guiVars, folderVars>>

\* The reply to USER is logged, whatever it is, and PASS is sent.
user_reply(t, r) ==
    /\ fr[t].pc = "user_reply"
    /\ Set(t, IF r = "raise" THEN Raised(fr[t])
              ELSE Ev(Ev([fr[t] EXCEPT !.pc = "pass_reply"], "user:" \o r), "PASS"))
    /\ UNCHANGED <<restVars, sessVars, is_passive, leaked, agentVars, calls, guiVars, folderVars>>

\* a login that takes every reply to PASS for 230
PassOkMut(r) == TRUE
\* response.startswith("230")
PassOk(r) == r = "230"

\* The reply to PASS: on 230 PROT P is sent, on any other reply login returns
\* False.
pass_reply(t, r) ==
    /\ fr[t].pc = "pass_reply"
    /\ Set(t, IF r = "raise" THEN Raised(fr[t])
              ELSE IF PassOk(r)
                   THEN Ev(Ev([fr[t] EXCEPT !.pc = "prot_reply"], "pass:" \o r), "PROT P")
                   ELSE Ev([fr[t] EXCEPT !.pc = "done", !.out = "False"], "pass:" \o r))
    /\ UNCHANGED <<restVars, sessVars, is_passive, leaked, agentVars, calls, guiVars, folderVars>>

\* The reply to PROT P is logged, whatever it is; set_transfer_mode('I') sends
\* TYPE I.
prot_reply(t, r) ==
    /\ fr[t].pc = "prot_reply"
    /\ Set(t, IF r = "raise" THEN Raised(fr[t])
              ELSE Ev(Ev([fr[t] EXCEPT !.pc = "type_reply"], "prot:" \o r), "TYPE I"))
    /\ UNCHANGED <<restVars, sessVars, is_passive, leaked, agentVars, calls, guiVars, folderVars>>

\* set_transfer_mode('I'): the reply to TYPE I; on 200 transfer_mode is set.
\* login returns True after it.
type_reply(t, r) ==
    /\ fr[t].pc = "type_reply"
    /\ Set(t, IF r = "raise" THEN Raised(fr[t])
              ELSE Ev([fr[t] EXCEPT !.pc = "done", !.out = "True"], "type:" \o r))
    /\ transfer_mode' = IF r = "200" THEN "I" ELSE transfer_mode
    /\ UNCHANGED <<restVars, control_socket, context, is_passive, leaked, agentVars, calls,
                   guiVars, folderVars>>

\* mode_sign.upper()
upper(s) ==
    CASE s = "a" -> "A"
      [] s = "i" -> "I"
      [] s = "x" -> "X"
      [] OTHER -> s

\* if mode_sign not in ['A', 'I']
ValidMode(m) == m \in {"A", "I"}

\* a set_transfer_mode that takes every reply to TYPE for 200
ModeAckMut(r) == TRUE
\* response.startswith("200")
ModeAck(r) == r = "200"

\* set_transfer_mode(mode_sign): an invalid sign is logged and nothing is
\* sent; else TYPE <sign> is sent.  Nothing catches an exception.
set_transfer_mode_begin(t, mode_sign) ==
    /\ fr[t].pc = "idle"
    /\ LET f == [IdleFrame EXCEPT !.op = "mode", !.arg = upper(mode_sign)]
       IN  Set(t, IF ~ValidMode(f.arg) THEN Returned(Ev(f, "invalid"))
                  ELSE IF Connected
                       THEN Ev([f EXCEPT !.pc = "mode_reply"], "TYPE " \o f.arg)
                       ELSE Raised(f))
    /\ UNCHANGED <<restVars, sessVars, is_passive, leaked, agentVars>>

\* set_transfer_mode: the reply to TYPE is read and logged; on 200
\* transfer_mode becomes the sign sent.
mode_reply(t, r) ==
    /\ fr[t].pc = "mode_reply"
    /\ Set(t, IF r = "raise" THEN Raised(fr[t]) ELSE Returned(Ev(fr[t], "type:" \o r)))
    /\ transfer_mode' = IF r # "raise" /\ ModeAck(r) THEN fr[t].arg ELSE transfer_mode
    /\ UNCHANGED <<restVars, control_socket, context, is_passive, leaked, agentVars, calls,
                   guiVars, folderVars>>

\* The command change_directory_server and make_directory send.
Command(op) == IF op = "cwd" THEN "CWD" ELSE "MKD"

\* change_directory_server, make_directory: the command is sent and the reply
\* is read and logged, whatever it is; nothing catches an exception.
command_begin(t, op, arg) ==
    /\ fr[t].pc = "idle"
    /\ Set(t, IF Connected
              THEN Ev([IdleFrame EXCEPT !.op = op, !.arg = arg, !.pc = "cmd_reply"],
                      Command(op))
              ELSE Raised([IdleFrame EXCEPT !.op = op, !.arg = arg]))
    /\ UNCHANGED <<restVars, sessVars, is_passive, leaked, agentVars>>

\* The directory the server is in after it accepted CWD arg; a directory is
\* the sequence of the names on its path, a name a sequence of characters.
Cd(dir, arg) ==
    IF arg = <<".", ".">>
    THEN IF dir = <<>> THEN dir ELSE SubSeq(dir, 1, Len(dir) - 1)
    ELSE Append(dir, arg)

\* The reply is read: the server changed its working directory when it
\* answers a CWD with 250.
command_reply(t, r) ==
    /\ fr[t].pc = "cmd_reply"
    /\ Set(t, IF r = "raise" THEN Raised(fr[t]) ELSE Returned(Ev(fr[t], r)))
    /\ rcwd' = IF fr[t].op = "cwd" /\ r = "250" THEN Cd(rcwd, fr[t].arg) ELSE rcwd
    /\ UNCHANGED <<fileVars, srv, sessVars, is_passive, leaked, agentVars, calls, guiVars, folderVars>>

\* close: nothing to do without a control socket; else QUIT is sent.
close_begin(t) ==
    /\ fr[t].pc = "idle"
    /\ Set(t, IF control_socket = "none"
              THEN Returned([IdleFrame EXCEPT !.op = "close"])
              ELSE IF Connected
                   THEN Ev([IdleFrame EXCEPT !.op = "close", !.pc = "quit_reply"], "QUIT")
                   ELSE Raised([IdleFrame EXCEPT !.op = "close"]))
    /\ UNCHANGED <<restVars, sessVars, is_passive, leaked, agentVars>>

\* close: the reply to QUIT is read and the control socket is closed; when the
\* read raises the socket is not closed.
quit_reply(t, ok) ==
    /\ fr[t].pc = "quit_reply"
    /\ control_socket' = IF ok THEN "closed" ELSE control_socket
    /\ Set(t, IF ok THEN Returned(Ev(fr[t], "closed")) ELSE Raised(fr[t]))
    /\ UNCHANGED <<restVars, context, transfer_mode, is_passive, leaked, agentVars, calls,
                   guiVars, folderVars>>

\* ------------------------------------------------ put_folder, down_folder
\* folder calls made in SpecFolder
MaxFolderCalls == 1
\* depth of the folders on the server
MaxDepth == 2

Entry(name, kind) == [name |-> name, kind |-> kind]

\* The local tree of the uploads: the folder t holds the file a and the
\* folder s, which holds the file b.
LocalEntries(folder) ==
    IF folder = <<"t">>
    THEN {Entry(<<"a">>, "file"), Entry(<<"s">>, "dir")}
    ELSE {Entry(<<"b">>, "file")}

\* os.listdir returns the entries in any order.
Orders(S) ==
    {q \in [1..Cardinality(S) -> S] : \A i, j \in 1..Cardinality(S) : q[i] = q[j] => i = j}

\* A line of a listing is the sequence of its blank-separated fields
\* (line.split()), a field a sequence of characters.
ListLine(perm, name) == <<perm>> \o [i \in 1..7 |-> <<"1">>] \o name

DirPerm == <<"d", "r", "w", "x">>
FilePerm == <<"-", "r", "w", "-">>

\* What LIST sends for a folder at the given depth: the line "total 8", the
\* entries . and .., and no more, or a file, or a folder and a file whose
\* name has a blank; folders at MaxDepth hold no folders.
TotalLine == << <<"t", "o", "t", "a", "l">>, <<"8">> >>
ListHead == <<TotalLine, ListLine(DirPerm, << <<".">> >>), ListLine(DirPerm, << <<".", ".">> >>)>>
Listings(depth) ==
    {ListHead,
     ListHead \o <<ListLine(FilePerm, << <<"b">> >>)>>}
        \cup IF depth < MaxDepth
             THEN {ListHead \o <<ListLine(DirPerm, << <<"s">> >>),
                                 ListLine(FilePerm, << <<"m">>, <<"y">> >>)>>}
             ELSE {}

\* " ".join(parts)
RECURSIVE JoinBlank(_)
JoinBlank(parts) ==
    IF Len(parts) = 1 THEN parts[1]
    ELSE parts[1] \o <<" ">> \o JoinBlank(Tail(parts))

\* if name in [".", ".."]: continue
Skipped(name) == name \in {<<".">>, <<".", ".">>}

\* down_folder, lines 821-829: the entries of the lines with at least nine
\* fields, the name made of the fields from the ninth on, a folder when the
\* first field starts with d; . and .. are left out.
RECURSIVE ListedEntries(_)
ListedEntries(lines) ==
    IF lines = <<>> THEN <<>>
    ELSE LET parts == Head(lines)
             rest == ListedEntries(Tail(lines))
         IN  IF Len(parts) >= 9
             THEN LET name == JoinBlank(SubSeq(parts, 9, Len(parts)))
                      item_type == IF parts[1][1] = "d" THEN "dir" ELSE "file"
                  IN  IF Skipped(name) THEN rest ELSE <<Entry(name, item_type)>> \o rest
             ELSE rest

\* The locals of a put_folder or down_folder call, start being the working
\* directory of the server when it was called, and what it did so far: the
\* CWD <folder> and CWD .. it sent, the entries it took up.
NewFolder(op, name, pc, start) ==
    [op |-> op, name |-> name, pc |-> pc, start |-> start, end |-> <<>>,
     items |-> <<>>, listing |-> <<>>, cwd_in |-> 0, cwd_up |-> 0, children |-> 0,
     failed |-> 0, raised |-> "none", missing |-> FALSE]

InitFolder ==
    /\ rcwd = << <<"h">> >>
    /\ fstack = <<>>
    /\ fret = NewFolder("none", <<>>, "none", <<>>)

Top == fstack[Len(fstack)]
InFolder(pc) == fstack # <<>> /\ Top.pc = pc

SetTop(g) == fstack' = [fstack EXCEPT ![Len(fstack)] = g] /\ UNCHANGED fret

\* The innermost folder call returns.
FolderReturn(g) ==
    /\ fstack' = SubSeq(fstack, 1, Len(fstack) - 1)
    /\ fret' = [g EXCEPT !.pc = "returned", !.end = rcwd]

\* except Exception as e: the handler logs and the call returns; what raised
\* is kept: a command (MKD, CWD), os.listdir, list_files or a child.
FolderExcept(g, what) == FolderReturn([g EXCEPT !.raised = what])

\* The orders os.listdir can give for the folder of the innermost call.
FolderOrders == IF fstack = <<>> THEN {} ELSE Orders(LocalEntries(Top.name))

folderRest == <<restVars, sessVars, is_passive, fr, leaked, agentVars, calls, guiVars>>

\* put_folder is called: it returns at once when the local folder does not
\* exist.
put_folder_begin(t, exists) ==
    /\ fstack = <<>> /\ fr[t].pc = "idle"
    /\ calls < MaxFolderCalls
    /\ LET g == [NewFolder("put_folder", <<"t">>, "mkd", rcwd) EXCEPT !.missing = ~exists]
       IN  IF PathMissing(exists)
           THEN fret' = [g EXCEPT !.pc = "returned", !.end = rcwd] /\ UNCHANGED fstack
           ELSE fstack' = <<g>> /\ UNCHANGED fret
    /\ calls' = calls + 1
    /\ UNCHANGED <<restVars, sessVars, is_passive, fr, leaked, agentVars, guiVars>>

\* down_folder is called: it returns at once when os.makedirs of the target
\* folder raises (ok is FALSE).
down_folder_begin(t, ok) ==
    /\ fstack = <<>> /\ fr[t].pc = "idle"
    /\ calls < MaxFolderCalls
    /\ LET g == NewFolder("down_folder", <<"s">>, "cwd", rcwd)
       IN  IF ok
           THEN fstack' = <<g>> /\ UNCHANGED fret
           ELSE fret' = [g EXCEPT !.pc = "returned", !.end = rcwd] /\ UNCHANGED fstack
    /\ calls' = calls + 1
    /\ UNCHANGED <<restVars, sessVars, is_passive, fr, leaked, agentVars, guiVars>>

\* put_folder: self.make_directory(server_folder)
folder_mkd(t) ==
    /\ InFolder("mkd")
    /\ command_begin(t, "mkd", Top.name)
    /\ SetTop([Top EXCEPT !.pc = "mkd_wait"])
    /\ UNCHANGED <<calls, guiVars>>

\* self.change_directory_server(server_folder)
folder_cwd(t) ==
    /\ InFolder("cwd")
    /\ command_begin(t, "cwd", Top.name)
    /\ SetTop([Top EXCEPT !.pc = "cwd_wait",
                          !.cwd_in = @ + IF Connected THEN 1 ELSE 0])
    /\ UNCHANGED <<calls, guiVars>>

\* put_folder: os.listdir(local_folder) gives the entries in some order, or
\* raises.
folder_listdir(order, ok) ==
    /\ InFolder("listdir")
    /\ order \in FolderOrders
    /\ IF ok
       THEN SetTop([Top EXCEPT !.pc = "items", !.items = order])
       ELSE FolderExcept(Top, "listdir")
    /\ UNCHANGED folderRest

\* down_folder: list_file = self.list_files()
folder_list(t) ==
    /\ InFolder("list")
    /\ list_files_begin(t)
    /\ SetTop([Top EXCEPT !.pc = "list_wait"])
    /\ UNCHANGED <<calls, guiVars>>

\* What LIST sends: the listing of the working directory of the server, the
\* directory the client started in being at depth 0.
ServerListings == Listings(Len(rcwd) - 1)

\* down_folder: the listing that list_files returned is split into lines and
\* the lines into fields.
folder_parse(listing) ==
    /\ InFolder("parse")
    /\ listing \in ServerListings
    /\ SetTop([Top EXCEPT !.pc = "items", !.listing = listing,
                          !.items = ListedEntries(listing)])
    /\ UNCHANGED folderRest

\* The next entry is a file: put_file(item_path), or down_file(name, ..),
\* whose os.makedirs raises when ok is FALSE.
folder_file(t, ok) ==
    /\ InFolder("items")
    /\ Top.items # <<>> /\ Head(Top.items).kind = "file"
    /\ IF Top.op = "put_folder"
       THEN ok /\ put_file_begin(t, TRUE, 1)
       ELSE down_file_begin(t, ok)
    /\ SetTop([Top EXCEPT !.pc = "child_wait", !.items = Tail(@), !.children = @ + 1])
    /\ UNCHANGED <<calls, guiVars>>

\* The next entry is a folder: put_folder(item_path), or down_folder(name,
\* ..), which returns at once when its os.makedirs raises (ok is FALSE).  The
\* model follows the recursion to one call more than the tree is deep.
folder_subfolder(t, ok) ==
    /\ InFolder("items") /\ fr[t].pc = "idle"
    /\ Top.items # <<>> /\ Head(Top.items).kind = "dir"
    /\ Len(fstack) <= MaxDepth
    /\ LET up == [Top EXCEPT !.items = Tail(@), !.children = @ + 1]
           g == NewFolder(Top.op, Head(Top.items).name,
                          IF Top.op = "put_folder" THEN "mkd" ELSE "cwd", rcwd)
       IN  IF Top.op = "put_folder"
           THEN ok /\ fstack' = [fstack EXCEPT ![Len(fstack)] = up] \o <<g>>
                   /\ UNCHANGED fret
           ELSE IF ok
                THEN fstack' = [fstack EXCEPT ![Len(fstack)] = up] \o <<g>>
                     /\ UNCHANGED fret
                ELSE /\ fstack' = [fstack EXCEPT ![Len(fstack)] = up]
                     /\ fret' = [g EXCEPT !.pc = "returned", !.end = rcwd]
    /\ UNCHANGED folderRest

\* After the last entry: self.change_directory_server("..")
folder_up(t) ==
    /\ InFolder("items") /\ Top.items = <<>>
    /\ command_begin(t, "cwd", <<".", ".">>)
    /\ SetTop([Top EXCEPT !.pc = "up_wait",
                          !.cwd_up = @ + IF Connected THEN 1 ELSE 0])
    /\ UNCHANGED <<calls, guiVars>>

\* a put_file or down_file whose handler ran, or whose scan did not pass
ChildFailed(f) == Has(f.ev, "except") \/ f.scan_ret = "false"

\* The call the folder made has raised (nothing in the callee caught it).
CommandRaised(f) == f.out = "raised"

\* The call that the folder call made is over.  An exception goes to the
\* handler of the folder call, which returns; else the folder call goes on:
\* after MKD with CWD, after CWD with the entries, after a listing with its
\* lines when there are any, after a child with the next entry, and after
\* CWD .. it returns.
folder_after(t) ==
    /\ fstack # <<>>
    /\ Top.pc \in {"mkd_wait", "cwd_wait", "list_wait", "child_wait", "up_wait"}
    /\ Leave(t)
    /\ LET f == fr[t]
           g == Top
       IN  IF CommandRaised(f)
           THEN FolderExcept(g, CASE g.pc = "list_wait" -> "list_files"
                                  [] g.pc = "child_wait" -> "child"
                                  [] OTHER -> "command")
           ELSE CASE g.pc = "mkd_wait" -> SetTop([g EXCEPT !.pc = "cwd"])
                  [] g.pc = "cwd_wait" ->
                        SetTop([g EXCEPT !.pc = IF g.op = "put_folder"
                                                THEN "listdir" ELSE "list"])
                  [] g.pc = "list_wait" ->
                        SetTop([g EXCEPT !.pc = IF Has(f.ev, "data")
                                                THEN "parse" ELSE "items"])
                  [] g.pc = "child_wait" ->
                        SetTop([g EXCEPT !.pc = "items",
                                         !.failed = @ + IF ChildFailed(f) THEN 1 ELSE 0])
                  [] OTHER -> FolderReturn(g)
    /\ UNCHANGED <<restVars, sessVars, is_passive, agentVars, calls, guiVars>>

\* The GUI before any job was put.
GuiIdle ==
    /\ transfer_queue = <<>> /\ wpc = "get" /\ running = {}
    /\ job = [id |-> 0, op |-> "none"]
    /\ started = <<>> /\ njobs = 0 /\ stop_after = -1 /\ ui_after = 0
    /\ client = "set" /\ done = <<>>

\* -------------------------------------------------------------- SpecSession
\* A new ClientSocket; its caller makes MaxSessionCalls calls of connect,
\* login, change_directory_server, make_directory and close, one after the
\* other, and the server answers each command with a reply of its class or
\* the exchange fails.
InitSession ==
    /\ is_passive = TRUE
    /\ fr = [t \in Threads |-> IdleFrame]
    /\ leaked = [data |-> 0, listen |-> 0]
    /\ inst_proc = "unset"
    /\ cls_proc = "none"
    /\ calls = 0
    /\ GuiIdle
    /\ InitFiles
    /\ InitAgent
    /\ InitFolder
    /\ control_socket = "none"
    /\ context = "none"
    /\ transfer_mode = "I"

SessionCall(t) ==
    /\ calls < MaxSessionCalls
    /\ calls' = calls + 1
    /\ \/ \E ok \in BOOLEAN : connect(t, ok)
       \/ login_begin(t)
       \/ \E op \in {"cwd", "mkd"}, arg \in {<<"s">>, <<".", ".">>} :
              command_begin(t, op, arg)
       \/ close_begin(t)
       \/ \E mode_sign \in {"a", "A", "I", "x"} : set_transfer_mode_begin(t, mode_sign)
    /\ UNCHANGED <<guiVars, folderVars>>

SessionStep(t) ==
    \/ \E r \in {"234", "500", "raise"} : auth_reply(t, r)
    \/ \E ok \in BOOLEAN : handshake(t, ok)
    \/ \E r \in {"331", "530", "raise"} : user_reply(t, r)
    \/ \E r \in {"230", "530", "raise"} : pass_reply(t, r)
    \/ \E r \in {"200", "500", "raise"} : prot_reply(t, r)
    \/ \E r \in {"200", "500", "raise"} : type_reply(t, r)
    \/ \E r \in {"250", "550", "raise"} : command_reply(t, r)
    \/ \E ok \in BOOLEAN : quit_reply(t, ok)
    \/ \E r \in {"200", "500", "raise"} : mode_reply(t, r)
    \/ Return(t)

NextSession ==
    \/ SessionCall("worker")
    \/ SessionStep("worker")

SpecSession == InitSession /\ [][NextSession]_vars

\* ------------------------- cleanup_clamav_agent, restart_clamav_agent, by step
\* calls of cleanup_clamav_agent and restart_clamav_agent in SpecHandle
MaxHandleCalls == 3

\* cleanup_clamav_agent or restart_clamav_agent is called on thread t: the
\* scan retry of a put_file calls restart on the worker; GUI.disconnect and
\* the closing of the window call cleanup on threads of their own.  restart
\* starts with cleanup.
handle_call(t, op) ==
    /\ fr[t].pc = "idle"
    /\ calls < MaxHandleCalls
    /\ calls' = calls + 1
    /\ Set(t, [IdleFrame EXCEPT !.op = op, !.pc = "cl_test"])
    /\ UNCHANGED <<restVars, sessVars, is_passive, leaked, agentVars, guiVars, folderVars>>

\* cleanup_clamav_agent is over: restart_clamav_agent sleeps and goes on to
\* spawn.
CleanupOver(f) == IF f.op = "restart" THEN [f EXCEPT !.pc = "spawn"] ELSE Returned(f)

\* if cls._clamav_agent_process and ..: the first read of the attribute; a
\* Popen object is true, None is false and ends the test.
cleanup_test(t) ==
    /\ fr[t].pc = "cl_test"
    /\ Set(t, IF cls_proc = "none" THEN CleanupOver(fr[t]) ELSE [fr[t] EXCEPT !.pc = "cl_poll"])
    /\ UNCHANGED <<restVars, sessVars, is_passive, leaked, agentVars, calls, guiVars, folderVars>>

\* .. and cls._clamav_agent_process.poll() is None: the attribute is read
\* again; None has no poll (AttributeError); poll() is None while the
\* process runs.
cleanup_poll(t) ==
    /\ fr[t].pc = "cl_poll"
    /\ Set(t, IF cls_proc = "none" THEN Raised(Ev(fr[t], "poll on None"))
              ELSE IF Alive(cls_proc) THEN [fr[t] EXCEPT !.pc = "cl_term"]
              ELSE CleanupOver(fr[t]))
    /\ UNCHANGED <<restVars, sessVars, is_passive, leaked, agentVars, calls, guiVars, folderVars>>

\* cls._clamav_agent_process.terminate(): the attribute is read a third
\* time; the process it refers to now is terminated.
cleanup_terminate(t) ==
    /\ fr[t].pc = "cl_term"
    /\ Set(t, IF cls_proc = "none" THEN Raised(Ev(fr[t], "terminate on None"))
              ELSE Ev([fr[t] EXCEPT !.pc = "cl_clear"], "terminate"))
    /\ cls_proc' = IF cls_proc = "none" THEN cls_proc ELSE "dead"
    /\ UNCHANGED <<restVars, sessVars, is_passive, leaked, inst_proc, calls, guiVars, folderVars>>

\* cls._clamav_agent_process = None; the handle of a process that runs is
\* dropped when another thread has stored one since the terminate.
cleanup_clear(t) ==
    /\ fr[t].pc = "cl_clear"
    /\ Set(t, CleanupOver([fr[t] EXCEPT !.dropped = Alive(cls_proc)]))
    /\ cls_proc' = "none"
    /\ UNCHANGED <<restVars, sessVars, is_passive, leaked, inst_proc, calls, guiVars, folderVars>>

\* restart_clamav_agent, after cleanup and the sleep: a process is spawned
\* and stored in the class attribute, whatever the attribute holds by now.
restart_spawn(t) ==
    /\ fr[t].pc = "spawn"
    /\ Set(t, Returned(Ev([fr[t] EXCEPT !.spawns = @ + 1, !.restarts = @ + 1,
                                        !.dropped = Alive(cls_proc)], "spawn")))
    /\ cls_proc' = "starting"
    /\ UNCHANGED <<restVars, sessVars, is_passive, leaked, inst_proc, calls, guiVars, folderVars>>

HandleStep(t) ==
    \/ cleanup_test(t)
    \/ cleanup_poll(t)
    \/ cleanup_terminate(t)
    \/ cleanup_clear(t)
    \/ restart_spawn(t)
    \/ Return(t)

NextHandle ==
    \/ handle_call("worker", "restart")
    \/ handle_call("ui", "cleanup")
    \/ \E t \in Threads : HandleStep(t)
    \/ AgentStep

\* ------------------------------------------------------------ SpecTransfer
\* One thread makes MaxCalls calls of list_files, put_file and down_file, one
\* after the other, on a session that connect and login have set up; the mode
\* is switched between calls only.
InitTransfer ==
    /\ is_passive = TRUE
    /\ fr = [t \in Threads |-> IdleFrame]
    /\ leaked = [data |-> 0, listen |-> 0]
    /\ inst_proc = "unset"
    /\ cls_proc = "none"
    /\ calls = 0
    /\ GuiIdle
    /\ InitFiles
    /\ InitAgent
    /\ InitFolder
    /\ control_socket = "tls"
    /\ context = "set"
    /\ transfer_mode = "I"

\* Two threads call cleanup_clamav_agent and restart_clamav_agent.
SpecHandle == InitTransfer /\ [][NextHandle]_vars

Call(t) ==
    /\ calls < MaxCalls
    /\ calls' = calls + 1
    /\ \/ list_files_begin(t)
       \/ \E exists \in BOOLEAN, size \in {0, ChunkSize + 1} : put_file_begin(t, exists, size)
       \/ \E ok \in BOOLEAN : down_file_begin(t, ok)
    /\ UNCHANGED <<guiVars, folderVars>>

\* GUI.switch_mode while no call is in progress.
SwitchBetweenCalls ==
    /\ \A t \in Threads : fr[t].pc = "idle"
    /\ is_passive' = ~is_passive
    /\ UNCHANGED <<restVars, sessVars, fr, leaked, agentVars, calls, guiVars, folderVars>>

NextTransfer ==
    \/ Call("worker")
    \/ Step("worker")
    \/ SwitchBetweenCalls
    \/ AgentStep
    \/ Finalize

SpecTransfer == InitTransfer /\ [][NextTransfer]_vars

\* ---------------------------------------------------------------- SpecPasv
\* Calls of list_files and down_file in passive mode; the server answers PASV
\* with any of PasvReplies.
PasvCall ==
    /\ calls < MaxCalls
    /\ calls' = calls + 1
    /\ list_files_begin("worker") \/ down_file_begin("worker", TRUE)
    /\ UNCHANGED <<guiVars, folderVars>>

PasvStep(t) ==
    \/ get_file_size(t)
    \/ get_data_socket(t)
    \/ \E r \in PasvReplies, ok \in BOOLEAN : passive_mode(t, r, ok)
    \/ send_trigger(t)
    \/ \E ok \in BOOLEAN : wrap_socket(t, ok)
    \/ \E r \in {"150", "550"}, n \in 0..MaxChunks : reply150(t, r, n)
    \/ \E k \in Reads(fr[t]) : stream(t, TRUE, k)
    \/ final_reply(t, TRUE)
    \/ Return(t)

NextPasv ==
    \/ PasvCall
    \/ PasvStep("worker")
    \/ Finalize

SpecPasv == InitTransfer /\ [][NextPasv]_vars

\* --------------------------------------------------------------- SpecAgent
\* Runs of the agent process under every header, scanner outcome and failure.
NextAgent ==
    \/ \E ok \in BOOLEAN : agent_accept(ok)
    \/ \E h \in Headers \cup FirstRecvs, ok \in BOOLEAN : agent_header(h, ok)
    \/ \E ok \in BOOLEAN : agent_open(ok)
    \/ \E k \in 0..ChunkSize, ok \in BOOLEAN : agent_recv(k, ok)
    \/ \E o \in ScanOutcomes : agent_scan(o)
    \/ \E ok \in BOOLEAN : agent_send(ok)
    \/ agent_finally
    \/ agent_spawn

SpecAgent == InitTransfer /\ [][NextAgent]_vars

\* ---------------------------------------------------------------- SpecScan
\* Uploads of files of several sizes, with every outcome of the scan; the
\* server refuses the STOR of a file that passed.
ScanSizes == {0, 1, ChunkSize + 1, MB + MB \div 2, 100 * MB}

ScanCall ==
    /\ calls < MaxCalls
    /\ calls' = calls + 1
    /\ \E exists \in BOOLEAN, size \in ScanSizes : put_file_begin("worker", exists, size)
    /\ UNCHANGED <<guiVars, folderVars>>

ScanStep(t) ==
    \/ \E r \in AgentReplies : attempt_reply(t, r)
    \/ \E k \in FailKinds, a \in BOOLEAN : attempt_fail(t, k, a)
    \/ restart_clamav_agent(t)
    \/ get_data_socket(t)
    \/ passive_mode(t, ServerPasv, TRUE)
    \/ send_trigger(t)
    \/ wrap_socket(t, TRUE)
    \/ reply150(t, "550", 0)
    \/ Return(t)

NextScan ==
    \/ ScanCall
    \/ ScanStep("worker")
    \/ AgentStep

SpecScan == InitTransfer /\ [][NextScan]_vars

\* ---------------------------------------------------------------- SpecFile
\* Uploads of files of every size of FileSizes and downloads of the file the
\* server holds, in passive mode; the scan passes, the data arrives in parts
\* of any of the lengths of Reads, and a transfer may break off.
FileCall ==
    /\ calls < MaxCalls
    /\ calls' = calls + 1
    /\ \/ \E size \in FileSizes : put_file_begin("worker", TRUE, size)
       \/ down_file_begin("worker", TRUE)
    /\ UNCHANGED <<guiVars, folderVars>>

FileStep(t) ==
    \/ attempt_reply(t, "CLEAN")
    \/ get_file_size(t)
    \/ get_data_socket(t)
    \/ passive_mode(t, ServerPasv, TRUE)
    \/ send_trigger(t)
    \/ wrap_socket(t, TRUE)
    \/ \E r \in {"150", "550"} : reply150(t, r, 0)
    \/ \E ok \in BOOLEAN, k \in Reads(fr[t]) : stream(t, ok, k)
    \/ final_reply(t, TRUE)
    \/ Return(t)

NextFile ==
    \/ FileCall
    \/ FileStep("worker")
    \/ AgentStep

SpecFile == InitTransfer /\ [][NextFile]_vars

\* -------------------------------------------------------------- SpecFolder
\* One thread calls put_file, put_folder for the local tree or down_folder
\* for a folder of the server, in passive mode; the server answers MKD and
\* CWD <folder> with 250 or 550 and accepts CWD .., a scan passes or finds the
\* file infected, the data connection may fail, and reading a reply may fail.
FolderFileCall ==
    /\ fstack = <<>>
    /\ calls < MaxFolderCalls
    /\ calls' = calls + 1
    /\ \E exists \in BOOLEAN : put_file_begin("worker", exists, IF exists THEN 1 ELSE 0)
    /\ UNCHANGED <<guiVars, folderVars>>

FolderStep(t) ==
    \/ \E r \in {"CLEAN", "INFECTED"} : attempt_reply(t, r)
    \/ get_file_size(t)
    \/ get_data_socket(t)
    \/ \E ok \in BOOLEAN : passive_mode(t, ServerPasv, ok)
    \/ send_trigger(t)
    \/ wrap_socket(t, TRUE)
    \/ \E r \in {"150", "550"}, n \in 0..1 : reply150(t, r, n)
    \/ stream(t, TRUE, FullRead(fr[t]))
    \/ final_reply(t, TRUE)
    \/ \E r \in {"250", "550", "raise"} :
           (fr[t].arg = <<".", ".">> => r # "550") /\ command_reply(t, r)
    \/ Return(t)

NextFolder ==
    \/ FolderFileCall
    \/ \E exists \in BOOLEAN : put_folder_begin("worker", exists)
    \/ \E ok \in BOOLEAN : down_folder_begin("worker", ok)
    \/ folder_mkd("worker")
    \/ folder_cwd("worker")
    \/ \E order \in FolderOrders, ok \in BOOLEAN : folder_listdir(order, ok)
    \/ folder_list("worker")
    \/ \E listing \in ServerListings : folder_parse(listing)
    \/ \E ok \in BOOLEAN : folder_file("worker", ok)
    \/ \E ok \in BOOLEAN : folder_subfolder("worker", ok)
    \/ folder_up("worker")
    \/ folder_after("worker")
    \/ FolderStep("worker")
    \/ AgentStep

SpecFolder == InitTransfer /\ [][NextFolder]_vars

\* ----------------------------------------------------------------- SpecGui
\* The GUI: the Tk main loop (thread "ui") runs one callback at a time, the
\* transfer worker (thread "worker") runs the queued jobs.  A job is
\* [id, op]; ids count the jobs in the order they were put.
JobOps == {"upload_file", "download_file"}

\* a queue whose get() takes the newest item
QHeadMut(q) == q[Len(q)]
\* queue.Queue: get() takes the oldest item.
QHead(q) == Head(q)
QRest(q) == Tail(q)

\* a worker that does not wait for the call
CallOverMut(f) == TRUE
\* The call the worker made for its job has returned to the worker's loop.
CallOver(f) == f.pc = "idle"

UiIdle == fr["ui"].pc = "idle"

\* upload_selected, download_selected: one job is put on the queue.
enqueue(op) ==
    /\ UiIdle
    /\ njobs < MaxJobs
    /\ njobs' = njobs + 1
    /\ transfer_queue' = Append(transfer_queue, [id |-> njobs + 1, op |-> op])
    /\ UNCHANGED <<restVars, folderVars, sessVars, is_passive, fr, leaked, agentVars, calls, wpc, job, running,
                   started, stop_after, client, done, ui_after>>

\* The stop sentinel (None) is put on the queue.
enqueue_stop ==
    /\ UiIdle
    /\ stop_after = -1
    /\ stop_after' = njobs
    /\ transfer_queue' = Append(transfer_queue, [id |-> 0, op |-> "stop"])
    /\ UNCHANGED <<restVars, folderVars, sessVars, is_passive, fr, leaked, agentVars, calls, wpc, job, running,
                   started, njobs, client, done, ui_after>>

\* GUI.switch_mode: the switch sets is_passive of the connected client (the
\* client of this model is connected throughout).
switch_mode ==
    /\ UiIdle
    /\ is_passive' = ~is_passive
    /\ UNCHANGED <<restVars, sessVars, fr, leaked, agentVars, calls, guiVars, folderVars>>

\* A refresh_remote_files scheduled with after(0, ..) runs: list_files on the
\* main loop's thread, or nothing when there is no client.
refresh_remote_files ==
    /\ ui_after > 0
    /\ ui_after' = ui_after - 1
    /\ IF client = "set"
       THEN list_files_begin("ui")
       ELSE UNCHANGED <<restVars, sessVars, is_passive, fr, leaked, agentVars>>
    /\ UNCHANGED <<restVars, folderVars, calls, transfer_queue, wpc, job, running, started, njobs,
                   stop_after, client, done>>

\* GUI.disconnect, taken while no call is in progress: close() ends the
\* session, the client is dropped and cleanup_clamav_agent terminates the
\* process of the class attribute when it runs.
disconnect ==
    /\ \A t \in Threads : fr[t].pc = "idle"
    /\ client = "set"
    /\ client' = "none"
    /\ control_socket' = "closed"
    /\ cls_proc' = IF Alive(cls_proc) THEN "none" ELSE cls_proc
    /\ UNCHANGED <<restVars, folderVars, context, transfer_mode, is_passive, fr, leaked, inst_proc, calls,
                   transfer_queue, wpc, job, running, started, njobs, stop_after,
                   done, ui_after>>

\* a worker that takes the sentinel for a job
IsSentinelMut(j) == FALSE
\* job is None
IsSentinel(j) == j.op = "stop"

\* An entry of done: task_done was called for job id (0: the sentinel);
\* failed tells that the worker caught an exception of the job.
TaskDone(id, failed) == [id |-> id, failed |-> failed]

\* _transfer_worker: job = self.transfer_queue.get(); on the sentinel,
\* task_done and the loop ends.
worker_get ==
    /\ wpc = "get"
    /\ transfer_queue # <<>>
    /\ job' = QHead(transfer_queue)
    /\ transfer_queue' = QRest(transfer_queue)
    /\ IF IsSentinel(QHead(transfer_queue))
       THEN wpc' = "stopped" /\ done' = Append(done, TaskDone(0, FALSE))
       ELSE wpc' = "dispatch" /\ UNCHANGED done
    /\ UNCHANGED <<restVars, folderVars, sessVars, is_passive, fr, leaked, agentVars, calls, running, started,
                   njobs, stop_after, client, ui_after>>

\* a worker whose loop an exception of a job ends
AfterJobMut(raised) == IF raised THEN "stopped" ELSE "get"
\* The worker after a job: except Exception catches what the job raised,
\* finally calls task_done, and the loop goes on with the next get().
AfterJob(raised) == "get"

\* _transfer_worker: the call for the job starts; self.client.put_file or
\* self.client.down_file raises AttributeError when there is no client, and
\* the job is over at once.
worker_dispatch ==
    /\ wpc = "dispatch"
    /\ started' = Append(started, job.id)
    /\ IF client = "set"
       THEN /\ wpc' = "run"
            /\ running' = running \cup {job.id}
            /\ IF job.op = "upload_file"
               THEN \E exists \in BOOLEAN :
                        put_file_begin("worker", exists, IF exists THEN ChunkSize ELSE 0)
               ELSE \E ok \in BOOLEAN : down_file_begin("worker", ok)
            /\ UNCHANGED done
       ELSE /\ wpc' = AfterJob(TRUE)
            /\ done' = Append(done, TaskDone(job.id, TRUE))
            /\ UNCHANGED <<restVars, sessVars, is_passive, fr, leaked, agentVars, running>>
    /\ UNCHANGED <<restVars, folderVars, calls, transfer_queue, job, njobs, stop_after, client, ui_after>>

\* _transfer_worker: the call is over.  When it returned, an upload schedules
\* refresh_remote_files on the main loop; when it raised, the handler logs the
\* exception.  Then task_done, and the next get().
worker_done ==
    /\ wpc = "run"
    /\ CallOver(fr["worker"])
    /\ LET raised == fr["worker"].out = "raised"
       IN  /\ wpc' = AfterJob(raised)
           /\ done' = Append(done, TaskDone(job.id, raised))
           /\ ui_after' = IF job.op = "upload_file" /\ ~raised
                          THEN ui_after + 1 ELSE ui_after
    /\ running' = running \ {job.id}
    /\ UNCHANGED <<restVars, folderVars, sessVars, is_passive, fr, leaked, agentVars, calls, transfer_queue, job,
                   started, njobs, stop_after, client>>

\* The steps of a call when the scan agent answers the first attempt with a
\* verdict and no socket operation fails; the server may still refuse the
\* triggering command, and files have at most one chunk.
OkStep(t) ==
    \/ \E r \in {"CLEAN", "INFECTED"} : attempt_reply(t, r)
    \/ get_file_size(t)
    \/ get_data_socket(t)
    \/ passive_mode(t, ServerPasv, TRUE)
    \/ active_mode(t, "200")
    \/ send_trigger(t)
    \/ accept(t, TRUE)
    \/ wrap_socket(t, TRUE)
    \/ \E r \in {"150", "550"}, n \in 0..1 : reply150(t, r, n)
    \/ stream(t, TRUE, FullRead(fr[t]))
    \/ final_reply(t, TRUE)
    \/ Return(t)

InitGui == InitTransfer

\* SpecGui: the user enqueues up to MaxJobs jobs and may put the sentinel and
\* switch the mode whenever the main loop is free; the worker runs the jobs
\* and the main loop runs the refreshes the worker schedules.
NextGui ==
    \/ \E op \in JobOps : enqueue(op)
    \/ enqueue_stop
    \/ switch_mode
    \/ refresh_remote_files
    \/ disconnect
    \/ worker_get
    \/ worker_dispatch
    \/ worker_done
    \/ \E t \in Threads : OkStep(t)
    \/ AgentStep
    \/ Finalize

SpecGui == InitGui /\ [][NextGui]_vars

\* ------------------------------------------------- properties, SpecTransfer
\* Attempts a scan has made so far: the failed ones and the one that read a
\* reply.
AttemptsMade(f) == Len(f.fails) + IF f.result # "none" THEN 1 ELSE 0

\* C1: in a put_file call, an FTP command is sent or a socket of the data
\* channel is opened only after the scan of this call returned True on the
\* reply CLEAN; a call whose scan read INFECTED, ERROR or nothing, or failed
\* on every attempt, ends with no FTP traffic at all.
C1_NoUploadUnlessClean ==
    \A t \in Threads :
        LET f == fr[t] IN
        f.op = "put" =>
            /\ (f.ev # <<>> \/ f.data # "none" \/ f.listen # "none")
                   => (f.scan_ret = "true" /\ f.result = "CLEAN")
            /\ (f.result \in {"INFECTED", "ERROR", ""} \/ Len(f.fails) = 3)
                   => (f.pc = "done" /\ f.out = "returned" /\ f.ev = <<>>
                       /\ f.data = "none" /\ f.listen = "none")

\* C1, the case: a put_file call ended on the verdict INFECTED.
C1_Witness ==
    \E t \in Threads :
        fr[t].op = "put" /\ fr[t].pc = "done" /\ fr[t].result = "INFECTED"

\* C2: a scan never makes a 4th attempt, and a scan that returns without
\* having read a reply (every attempt failed) made exactly 3 attempts and
\* returns False.
C2_ThreeAttempts ==
    \A t \in Threads :
        LET f == fr[t] IN
        /\ AttemptsMade(f) <= 3
        /\ (f.scan_ret # "none" /\ f.result = "none")
               => (Len(f.fails) = 3 /\ f.scan_ret = "false")

\* C2, the case: three refused connections, and the scan returned False.
C2_Witness ==
    \E t \in Threads :
        fr[t].fails = <<"sockerr", "sockerr", "sockerr">> /\ fr[t].scan_ret = "false"

\* Failed attempts of a scan that call for a restart: the socket errors and
\* timeouts among the first two attempts.
RestartsDue(f) ==
    Cardinality({i \in 1..Len(f.fails) :
                    i < 3 /\ f.fails[i] \in {"sockerr", "timeout"}})

OpenDataSockets ==
    leaked.data + Cardinality({t \in Threads : OpenData(fr[t])})

\* C7: at most one data socket of the session is open at any time.
C7_AtMostOneDataSocket == OpenDataSockets <= 1

\* C8: when list_files, put_file or down_file has returned or raised, the data
\* socket and the listening socket it opened are closed.
C8_SocketsClosedOnExit ==
    \A t \in Threads :
        fr[t].pc = "done" => ~OpenData(fr[t]) /\ ~OpenListen(fr[t])

\* C10: once a reply other than 150 was read after the triggering command,
\* the operation has returned without raising, no chunk went over the data
\* socket, the data socket is closed and no final reply was read.
C10_Not150EndsTransfer ==
    \A t \in Threads :
        LET f == fr[t] IN
        Has(f.ev, "550") =>
            /\ f.pc = "done" /\ f.out = "returned"
            /\ ~Has(f.ev, "data") /\ f.data = "closed"
            /\ ~Has(f.ev, "final") /\ ~Has(f.ev, "close")

\* C10, the case: list_files read 550 after LIST in active mode.
C10_Witness ==
    \E t \in Threads :
        fr[t].op = "list" /\ Has(fr[t].ev, "550") /\ fr[t].m1 = "active"

\* C13: once active_mode has read a reply to PORT that is not 200, the
\* operation is over, its triggering command was not sent and it has no data
\* socket.
C13_PortRefusedNoTrigger ==
    \A t \in Threads :
        LET f == fr[t] IN
        Has(f.ev, "500") =>
            /\ f.pc = "done"
            /\ ~Has(f.ev, Trigger(f.op))
            /\ f.data = "none" /\ ~Has(f.ev, "accept")

\* C13, the case: a download in active mode whose PORT was answered 500.
C13_Witness ==
    \E t \in Threads :
        LET f == fr[t] IN
        f.op = "down" /\ f.m1 = "active" /\ Has(f.ev, "500") /\ f.pc = "done"

\* C17: while a call reads or writes its data socket, the socket is the TLS
\* socket made with the session of the control socket, and every chunk was
\* moved after the wrap.
C17_PayloadOnlyOverTls ==
    \A t \in Threads :
        LET f == fr[t] IN
        /\ f.pc = "stream" => f.data = "tls" /\ f.session = "control"
        /\ Has(f.ev, "data") =>
               /\ Has(f.ev, "wrap") /\ f.session = "control"
               /\ f.data \in {"tls", "closed"}
        /\ f.data = "tls" => f.session = "control"

\* C17, the case: list_files in active mode has read a chunk of the listing.
C17_Witness ==
    \E t \in Threads :
        LET f == fr[t] IN
        f.op = "list" /\ f.m1 = "active" /\ f.pc = "stream" /\ Has(f.ev, "data")

\* Some event a comes before position i of the log s.
Before(s, i, a) == \E j \in 1..(i - 1) : s[j] = a

\* C11: in a put_file or down_file call the 150 reply is read after the
\* triggering command was sent, every chunk goes over the data socket after
\* the 150 reply was read and before the data socket is closed, and the final
\* reply is read after the data socket was closed; while the final reply is
\* awaited the data socket is closed.
C11_StepsSequential ==
    \A t \in Threads :
        LET f == fr[t] IN
        f.op \in {"put", "down"} =>
            /\ \A i \in 1..Len(f.ev) :
                   /\ f.ev[i] = "150" => Before(f.ev, i, Trigger(f.op))
                   /\ f.ev[i] = "data" =>
                          Before(f.ev, i, "150") /\ ~Before(f.ev, i, "close")
                   /\ f.ev[i] = "close" => Before(f.ev, i, "150")
                   /\ f.ev[i] = "final" => Before(f.ev, i, "close")
            /\ f.pc = "final" => f.data = "closed"
            /\ OpenData(f) /\ f.pc = "stream" => Has(f.ev, "150")

\* C11, the case: an upload of two chunks ran to its final reply.
C11_Witness ==
    \E t \in Threads :
        LET f == fr[t] IN
        /\ f.op = "put" /\ Has(f.ev, "final")
        /\ Cardinality({i \in 1..Len(f.ev) : f.ev[i] = "data"}) = 2

\* --------------------------------------------------- properties, SpecPasv
\* The replies of the documented form: six numeric fields in parentheses and
\* a period, as a reply line.
DocForm(response) == \E e \in DocEndings : response = PasvReply(SixFields, e)

\* The endpoint such a reply names: host h1.h2.h3.h4, port p1*256 + p2.
DocEndpoint == [host |-> SubSeq(SixFields, 1, 4), port |-> 4 * 256 + 21]

\* C14: once passive_mode has read a reply of the documented form, the
\* endpoint its data socket was connected to is the host of the first four
\* fields and the port p1*256 + p2.
C14_PasvEndpoint ==
    \A t \in Threads :
        DocForm(fr[t].response) => fr[t].peer = DocEndpoint

\* C15: once passive_mode has read a reply that is not six numeric fields in
\* parentheses and a period, it has raised and no data socket was connected
\* to any endpoint.
C15_MalformedPasvRaises ==
    \A t \in Threads :
        LET f == fr[t] IN
        (f.response # <<>> /\ ~DocForm(f.response)) =>
            f.pc = "done" /\ f.data = "none" /\ ~Has(f.ev, "connect")

\* ------------------------------------------------ properties, SpecSession
\* C16: login returns True only after it read 230 in reply to PASS; it has
\* sent PROT P exactly when it read that 230; and a login that is over after
\* another reply to PASS or after an exception has returned False.
C16_LoginTrueOnly230 ==
    \A t \in Threads :
        LET f == fr[t] IN
        f.op = "login" =>
            /\ f.out = "True" => Has(f.ev, "pass:230")
            /\ Has(f.ev, "PROT P") <=> Has(f.ev, "pass:230")
            /\ (f.pc = "done" /\ (Has(f.ev, "except") \/ ~Has(f.ev, "pass:230")))
                   => f.out = "False"
            /\ f.pc = "done" => f.out \in {"True", "False"}

\* C16, the case: a login over TLS whose PASS was answered 230 returned True.
C16_Witness ==
    \E t \in Threads :
        LET f == fr[t] IN
        /\ f.op = "login" /\ f.out = "True"
        /\ Has(f.ev, "tls") /\ Has(f.ev, "PROT P")

\* C18: no operation of the client that has sent a command on the control
\* socket ends with an exception raised to its caller.
C18_NoOperationRaises ==
    \A t \in Threads :
        (fr[t].pc = "done" /\ fr[t].ev # <<>>) => fr[t].out # "raised"

\* C36: a login that has sent USER or PASS sent it on a control socket that
\* is wrapped in TLS.
C36_CredentialsOnlyOverTls ==
    \A t \in Threads :
        LET f == fr[t] IN
        (f.op = "login" /\ (Has(f.ev, "USER") \/ Has(f.ev, "PASS")))
            => control_socket = "tls"

\* C37: when login has returned True the session holds a context and a
\* control socket wrapped in TLS.
C37_LoggedInHoldsContext ==
    \A t \in Threads :
        LET f == fr[t] IN
        (f.op = "login" /\ f.pc = "done" /\ f.out = "True")
            => context = "set" /\ control_socket = "tls"

\* C39: when a close that sent QUIT is over, the control socket is closed.
C39_CloseClosesSocket ==
    \A t \in Threads :
        LET f == fr[t] IN
        (f.op = "close" /\ f.pc = "done" /\ Has(f.ev, "QUIT"))
            => control_socket = "closed"

\* The step is the reading of a 200 reply to a TYPE command on thread t.
TypeAcked(t) ==
    /\ fr[t].pc \in {"type_reply", "mode_reply"}
    /\ fr'[t].ev = Append(fr[t].ev, "type:200")

\* The sign of the TYPE command the call has sent.
SentMode(f) == IF f.op = "login" THEN "I" ELSE f.arg

\* C40: transfer_mode is A or I; a step changes it only by reading a 200
\* reply to a TYPE command, to the sign of that command, and every such step
\* sets it to that sign; a set_transfer_mode with an invalid sign is over at
\* once with nothing sent.
C40_ModeIsLastAcked ==
    [][\A t \in Threads :
           /\ transfer_mode' \in {"A", "I"}
           /\ TypeAcked(t) => transfer_mode' = SentMode(fr[t])
           /\ (\A u \in Threads : ~TypeAcked(u)) => transfer_mode' = transfer_mode
           /\ (fr[t].pc = "idle" /\ fr'[t].op = "mode" /\ ~ValidMode(fr'[t].arg))
                  => fr'[t].pc = "done" /\ fr'[t].ev = <<"invalid">>]_vars

\* C40, the case: TYPE A was acknowledged with 200 and the mode is A.
C40_Witness ==
    \E t \in Threads :
        LET f == fr[t] IN
        /\ f.op = "mode" /\ f.arg = "A" /\ f.pc = "done"
        /\ Has(f.ev, "type:200")
        /\ transfer_mode = "A"

\* --------------------------------------------------- properties, SpecScan
\* C35: the process scan_file_with_ClamAVAgent spawned and the process of the
\* handle that restart_clamav_agent and cleanup_clamav_agent use are not
\* alive together.
C35_AtMostOneAgent == ~(Alive(inst_proc) /\ Alive(cls_proc))

\* The log tells that the agent was not reached on any attempt.
SaysAllFailed(log) == Has(log, "All retry attempts failed")

C33_WitnessInfected ==
    \E t \in Threads :
        LET f == fr[t] IN
        /\ f.op = "put" /\ f.pc = "done" /\ f.scan_ret = "false"
        /\ f.result = "INFECTED" /\ Len(f.fails) = 1

\* C38: the calls of down_folder in progress are at most as many as the
\* folders on a path of the remote tree.
C38_RecursionBoundedByTree ==
    (fstack # <<>> /\ Top.op = "down_folder") => Len(fstack) <= MaxDepth

\* ------------------------------------------------- properties, SpecHandle
\* C34: no call of cleanup_clamav_agent or restart_clamav_agent ends with an
\* exception (poll or terminate on a handle that another thread has set to
\* None), none drops the handle of a process that runs, and a restart that
\* is over has spawned one process.
C34_HandleNeverRaces ==
    \A t \in Threads :
        LET f == fr[t] IN
        f.op \in {"cleanup", "restart"} =>
            /\ f.out # "raised"
            /\ ~f.dropped
            /\ (f.op = "restart" /\ f.pc = "done") => f.spawns = 1

\* ------------------------------------------------------ properties, SpecGui
\* The ids of the jobs waiting on the queue, in queue order.
QueuedIds ==
    LET q == SelectSeq(transfer_queue, LAMBDA j : j.op # "stop")
    IN  [i \in 1..Len(q) |-> q[i].id]

\* The ids a..b in increasing order.
Ids(a, b) == [i \in 1..(b - a + 1) |-> a + i - 1]

\* The job the worker has taken from the queue and not started yet.
Taken == IF wpc = "dispatch" THEN <<job.id>> ELSE <<>>

\* C4: the jobs the worker started are the first jobs put on the queue, in
\* the order they were put, each once; until the worker stops, the jobs
\* started, the job taken and the jobs waiting are together all the jobs put,
\* in order; and a worker that has stopped has started every job put before
\* the sentinel and none put after it.
C4_FifoExactlyOnce ==
    /\ started = Ids(1, Len(started))
    /\ wpc # "stopped" => started \o Taken \o QueuedIds = Ids(1, njobs)
    /\ wpc = "stopped" => Len(started) = stop_after

\* C4, the case: two jobs were put, then the sentinel, then a third job; the
\* worker ran the two and stopped.
C4_Witness ==
    /\ wpc = "stopped" /\ stop_after = 2 /\ njobs = 3
    /\ started = <<1, 2>>

\* C5: at most one job is executing, and a call of the worker is in progress
\* only while the worker holds the job it started last and waits for that
\* call: it takes no job from the queue before the call is over.
C5_OneJobAtATime ==
    /\ Cardinality(running) <= 1
    /\ fr["worker"].pc # "idle" =>
           /\ wpc = "run"
           /\ running = {job.id}
           /\ job.id = started[Len(started)]
    /\ wpc \in {"get", "dispatch", "stopped"} => running = {}

\* C5, the case: the worker is in the middle of the call of job 1 while job 2
\* and job 3 wait on the queue.
C5_Witness ==
    /\ fr["worker"].pc = "stream" /\ running = {1}
    /\ Len(transfer_queue) = 2

\* C12: get_data_socket sends the triggering command after the data socket
\* connected (when it found passive mode) or after PORT was answered 200 and
\* before the accept (when it found active mode), and when it has returned
\* the caller holds a connected data socket.
C12_TriggerOrderAndSocket ==
    \A t \in Threads :
        LET f == fr[t] IN
        /\ \A i \in 1..Len(f.ev) :
               f.ev[i] = Trigger(f.op) =>
                   /\ f.m1 = "passive" => Before(f.ev, i, "connect")
                   /\ f.m1 = "active" =>
                          Before(f.ev, i, "200") /\ ~Before(f.ev, i, "accept")
        /\ f.pc \in {"wrap", "reply150", "stream"} => OpenData(f)

\* The ids of the jobs task_done was called for, in order.
DoneIds ==
    LET d == SelectSeq(done, LAMBDA e : e.id # 0)
    IN  [i \in 1..Len(d) |-> d[i].id]

\* C19: nothing but the sentinel ends the worker: whatever its jobs raised,
\* a worker that has stopped took the sentinel; and task_done was called once,
\* in order, for every job the worker started except the one whose call is in
\* progress, the jobs whose exception was caught included.
C19_WorkerSurvivesJobFailure ==
    /\ wpc = "stopped" => \E i \in 1..Len(done) : done[i].id = 0
    /\ DoneIds = Ids(1, Len(started) - IF wpc = "run" THEN 1 ELSE 0)

\* C19, the case: two jobs were taken with no client connected; each raised,
\* each was marked done, and the worker waits for the next job.
C19_Witness ==
    /\ client = "none" /\ wpc = "get"
    /\ Len(done) = 2 /\ done[1].failed /\ done[2].failed
    /\ started = <<1, 2>>

\* C20: once the sentinel was taken from the queue the worker has stopped; a
\* stopped worker called task_done once for the sentinel and for nothing
\* after it, runs no call, and has started no job put after the sentinel.
C20_SentinelStopsWorker ==
    /\ (stop_after # -1 /\ \A i \in 1..Len(transfer_queue) : transfer_queue[i].op # "stop")
           => wpc = "stopped"
    /\ wpc = "stopped" =>
           /\ Cardinality({i \in 1..Len(done) : done[i].id = 0}) = 1
           /\ done[Len(done)].id = 0
           /\ \A i \in 1..Len(started) : started[i] <= stop_after
           /\ fr["worker"].pc = "idle" /\ running = {}
    /\ wpc # "stopped" => \A i \in 1..Len(done) : done[i].id # 0

\* C20, the case: a job, the sentinel and a second job were put; the worker
\* ran the first job and stopped, the second job stays on the queue.
C20_Witness ==
    /\ wpc = "stopped" /\ stop_after = 1 /\ njobs = 2
    /\ Len(transfer_queue) = 1 /\ transfer_queue[1].id = 2
    /\ started = <<1>>

\* A thread has sent a command on the control socket and not read the last
\* reply to it yet.
ControlBusy(t) ==
    fr[t].pc \in {"size_reply", "pasv_reply", "port_reply", "accept", "wrap",
                  "reply150", "stream", "final"}

\* C6: at most one thread at a time is in a command/reply exchange on the
\* control socket.
C6_OneThreadOnControlSocket ==
    Cardinality({t \in Threads : ControlBusy(t)}) <= 1

\* C9: the mode found by the first test of is_passive in get_data_socket is
\* the mode its second test finds: it never accepts on a listening socket it
\* does not have and never returns without a data socket.
C9_ModeFixedDuringNegotiation ==
    \A t \in Threads :
        LET f == fr[t] IN
        /\ f.m2 # "unset" => f.m2 = f.m1
        /\ ~Has(f.ev, "accept_on_none")
        /\ f.pc = "wrap" => f.data = "raw"

\* A call that ran to its final reply.
Completed(f) == f.pc = "done" /\ Has(f.ev, "final")

\* C25: a put_file that ran to its final reply has sent the local file to the
\* server whole and in order, in chunks of 4096 bytes and a shorter last one,
\* and a down_file that ran to its final reply has written what the server
\* holds; so the copy downloaded after an upload is the uploaded file, byte
\* for byte, for every length (0, multiples of 4096 and others).
C25_RoundTripIdentical ==
    \A t \in Threads :
        LET f == fr[t] IN
        /\ (f.op = "put" /\ Completed(f))
               => remote_file = Whole("local", f.filesize)
        /\ (f.op = "down" /\ Completed(f))
               => /\ local_copy = remote_file
                  /\ \A size \in FileSizes :
                         remote_file = Whole("local", size)
                             => local_copy = Whole("local", size)

\* C25, the case: the download of an uploaded file of 4097 bytes ran to its
\* final reply.
C25_Witness ==
    \E t \in Threads :
        /\ fr[t].op = "down" /\ Completed(fr[t])
        /\ remote_file = Whole("local", 4097)
        /\ local_copy = Whole("local", 4097)

\* C26: every attempt of a scan sets the timeout 45 + 4 * (size / 1048576)
\* seconds (written here in units of 1/1048576 second): 445 s for a file of
\* 100 MB, 45 s for an empty file.
C26_ScanTimeout ==
    \A t \in Threads :
        LET f == fr[t] IN
        f.op = "put" =>
            /\ Len(f.timeouts) = AttemptsMade(f)
            /\ \A i \in 1..Len(f.timeouts) :
                   /\ f.timeouts[i] = 45 * 1048576 + 4 * f.filesize
                   /\ f.filesize = 100 * 1048576 => f.timeouts[i] = 445 * 1048576
                   /\ f.filesize = 0 => f.timeouts[i] = 45 * 1048576

\* C26, the case: three attempts of the scan of a file of 100 MB.
C26_Witness ==
    \E t \in Threads :
        fr[t].filesize = 100 * 1048576 /\ Len(fr[t].timeouts) = 3

\* C27: a scan returns True exactly when the reply it read is CLEAN, and
\* False on INFECTED, ERROR, an empty reply and CLEAN followed by another
\* character; the attempt that read a reply is the last one of the scan.
C27_TrueOnlyOnClean ==
    \A t \in Threads :
        LET f == fr[t] IN
        /\ f.scan_ret = "true" <=> f.result = "CLEAN"
        /\ f.result \in {"INFECTED", "ERROR", "", "CLEAN\n"} => f.scan_ret = "false"
        /\ f.result # "none"
               => /\ f.pc \notin {"attempt", "restart"}
                  /\ Len(f.timeouts) = Len(f.fails) + 1

\* C27, the case: after a failed attempt a scan read CLEAN followed by a line
\* feed and returned False.
C27_Witness ==
    \E t \in Threads :
        /\ fr[t].fails # <<>> /\ fr[t].result = "CLEAN\n"
        /\ fr[t].scan_ret = "false" /\ fr[t].pc = "done"

\* The agent process is over.
AgentOver == srv.pc \in {"exited", "crashed"}

\* C28: scan_file returns CLEAN for the exit status 0, INFECTED for 1, ERROR
\* for every other status and when clamscan is not found, and it always
\* returns: the server goes on to send what it returned.
C28_ScanFileVerdict ==
    srv.outcome.kind # "none" =>
        /\ srv.scan_result \in {"CLEAN", "INFECTED", "ERROR"}
        /\ srv.scan_result = "CLEAN" <=> (srv.outcome.kind = "exit" /\ srv.outcome.code = 0)
        /\ srv.scan_result = "INFECTED" <=> (srv.outcome.kind = "exit" /\ srv.outcome.code = 1)
        /\ srv.pc = "send" \/ ~srv.raised \/ srv.peer = "closed"

\* C28, the case: clamscan exited with status 2 and the verdict ERROR was sent.
C28_Witness ==
    /\ srv.outcome = [kind |-> "exit", code |-> 2]
    /\ srv.sent = <<"ERROR">>

\* C29: when the agent process is over and the client has not gone away, the
\* accepted connection got exactly one reply, CLEAN, INFECTED or ERROR.
C29_ExactlyOneReply ==
    (AgentOver /\ srv.client_socket # "none" /\ srv.peer = "open")
        => (Len(srv.sent) = 1 /\ srv.sent[1] \in {"CLEAN", "INFECTED", "ERROR"})

\* C30: when the agent process is over, there is no scratch file, the
\* listening socket is closed and so is the client socket, if one was
\* accepted.
C30_CleanupOnEveryOutcome ==
    AgentOver =>
        /\ srv.scratch = "absent"
        /\ srv.client_socket \in {"none", "closed"}
        /\ srv.server_socket = "closed"

\* C31: the path the agent opens for writing, scans and removes is a file
\* path in the scratch directory (not the directory itself, not its parent).
C31_PathIsScratchChild == srv.temp_filepath \in {"none", "file"}

\* The first recv returned the header of cs with the first n of its bytes.
FirstRecvOf(cs, n) ==
    /\ n <= Len(cs.content)
    /\ srv.received = FirstRecv(cs, n)
    /\ srv.pc \notin {"accept", "header"}

\* The agent waits in recv for bytes of the file while the client, which has
\* sent all of cs, waits in recv for the verdict.
BothWait(cs, n) ==
    /\ srv.pc = "recv" /\ srv.peer = "open"
    /\ srv.bytes_received < srv.filesize
    /\ n + srv.bytes_received = Len(cs.content)

\* C32: whatever part of the client's bytes the first recv returned, the
\* agent has taken the size from the header, writes to a scratch file, has
\* written all bytes of the file when it scans, and never waits for bytes
\* while the client waits for the verdict.
C32_EverySplitServed ==
    \A cs \in ClientStreams, n \in 0..2 :
        FirstRecvOf(cs, n) =>
            /\ srv.filesize = Len(cs.content)
            /\ srv.temp_filepath = "file"
            /\ (srv.pc = "scan" /\ srv.peer = "open") => srv.bytes_received = Len(cs.content)
            /\ ~BothWait(cs, n)

\* C32: the agent and the client wait for each other.
C32_Deadlock ==
    \E cs \in ClientStreams, n \in 0..2 : FirstRecvOf(cs, n) /\ BothWait(cs, n)

\* The folder calls in progress and the one that returned last.
FolderCalls == {fstack[i] : i \in 1..Len(fstack)} \cup {fret}

C22_PutFolderRestoresCwd ==
    (fret.op = "put_folder" /\ fret.pc = "returned" /\ fret.raised = "none")
        => fret.end = fret.start

\* C23: a put_folder call that sent CWD <folder> and has returned, with every
\* command answered, has sent exactly one CWD .., also when os.listdir raised
\* or a child failed; and unless os.listdir raised it took up every entry of
\* the local folder.
C23_OneCwdUpPerPutFolder ==
    (fret.op = "put_folder" /\ fret.pc = "returned" /\ fret.cwd_in = 1
         /\ fret.raised \in {"none", "listdir", "child"})
        => /\ fret.cwd_up = 1
           /\ fret.raised # "listdir"
                  => fret.children = Cardinality(LocalEntries(fret.name))

\* Lines of a listing that name an entry other than . and ..
EntryLines(listing) ==
    {i \in 1..Len(listing) :
        /\ Len(listing[i]) >= 9
        /\ JoinBlank(SubSeq(listing[i], 9, Len(listing[i]))) \notin {<<".">>, <<".", ".">>}}

\* C24: a down_folder call that made its target folder and has returned, with
\* every command answered, has sent one CWD <folder> and one CWD .., has taken
\* up every listed entry but . and .., and leaves the server in the working
\* directory it was called in, also when list_files or a child raised.
C24_DownFolderRestoresCwd ==
    (fret.op = "down_folder" /\ fret.pc = "returned" /\ fret.cwd_in = 1
         /\ fret.raised \in {"none", "list_files", "child"})
        => /\ fret.cwd_up = 1
           /\ fret.end = fret.start
           /\ fret.raised = "none"
                  => fret.children = Cardinality(EntryLines(fret.listing))

====
